---- MODULE Spec2Model ----
(***************************************************************************)
(* Development server core of cmssy-forge: the publish task tracker of     *)
(* devCommand (POST /api/blocks/:name/publish, executePublish, the         *)
(* progress stream GET /api/publish/progress/:taskId) together with the    *)
(* `cmssy publish` child process that executePublish runs through exec.    *)
(*                                                                         *)
(* The server is one Node.js process: every handler runs to completion,    *)
(* so one action is one synchronous turn of the event loop (a request      *)
(* handler up to its first pending await, a timer tick, the exec           *)
(* callback with the continuation of executePublish).  The child process   *)
(* is a second process whose steps interleave with the server's turns.     *)
(*                                                                         *)
(* A task is a JavaScript object.  executePublish keeps a reference to the *)
(* object it was started for, the map publishTasks maps an id to an        *)
(* object: taskObjs is the heap of task objects in allocation order and    *)
(* publishTasks maps an id to an index of that heap.                       *)
(***************************************************************************)
EXTENDS Integers, Sequences, FiniteSets, TLC

VARIABLES taskObjs, publishTasks, execs, resp, streams,
          registry, disk, devDir, pendingWrites, handlers, sseClients, sessions,
          compiled, server

trackerVars == <<taskObjs, publishTasks, execs, resp, streams>>
watcherVars == <<registry, disk, devDir, pendingWrites, handlers, sseClients,
                 sessions, compiled, server>>
vars == <<trackerVars, watcherVars>>

(***************************************************************************)
(* Bounds of the model.                                                    *)
(***************************************************************************)
MaxTasks == 2
MaxStreams == 1
MaxPolledTasks == 1

(***************************************************************************)
(* Inputs of the requests.  Undefined stands for a JSON field that is      *)
(* absent from the request body.                                           *)
(***************************************************************************)
Undefined == "undefined"

resources == {"hero", "styles"}
RequestNames == {"hero", "ghost"}
RequestTargets == {Undefined, "marketplace", "workspace", "npm"}
RequestWorkspaceIds == {Undefined, "", "ws1"}
RequestVersionBumps == {Undefined}

Falsy(v) == v = Undefined \/ v = ""

(***************************************************************************)
(* Task ids: `publish-${Date.now()}-${Math.random()...}`.  The id is       *)
(* determined by the clock reading and the random draw, both inputs of     *)
(* the request handler; the code never compares two clock readings.        *)
(***************************************************************************)
ClockReadings == {0}
RndVals == {0, 1}
TaskId(t, r) == <<"publish", t, r>>
TaskIds == {TaskId(t, r) : t \in ClockReadings, r \in RndVals}
NoId == <<"none", 0, 0>>

(***************************************************************************)
(* Messages are sequences of lines; the null error is the empty sequence   *)
(* (every message the code can store has at least one line).               *)
(***************************************************************************)
Null == <<>>
CommandFailed(args) == <<"Command failed: cmssy">> \o args
NotConfiguredMsg == <<"Not configured. Run: cmssy configure">>
RemoteFailedMsg == <<"Error: <errorMessage of the failed request>">>
UploadTimedOutMsg == <<"Error: Block upload timed out after 3 minutes">>

(***************************************************************************)
(* executePublish, the synchronous part before `await execPromise`.        *)
(***************************************************************************)
NewTask(id, name) ==
    [id |-> id, blockName |-> name, status |-> "pending", progress |-> 0,
     steps |-> <<>>, error |-> Null]

SetLastStepStatus(steps, s) ==
    IF Len(steps) = 0 THEN steps
    ELSE [steps EXCEPT ![Len(steps)] = [@ EXCEPT !.status = s]]

StepBuilding(task) ==
    [task EXCEPT !.status = "building",
                 !.progress = 10,
                 !.steps = Append(@, [step |-> "building", status |-> "in_progress",
                                      message |-> <<"Building block...">>])]

PublishArgs(name, target, workspaceId, versionBump) ==
    <<"publish", name, "--" \o target>>
      \o (IF target = "workspace" /\ ~Falsy(workspaceId) THEN <<workspaceId>> ELSE <<>>)
      \o (IF ~Falsy(versionBump) /\ versionBump # "none"
          THEN <<"--" \o versionBump>> ELSE <<"--no-bump">>)

StepValidating(task) ==
    [task EXCEPT !.steps = Append(SetLastStepStatus(@, "completed"),
                                  [step |-> "validating", status |-> "in_progress",
                                   message |-> <<"Validating configuration...">>]),
                 !.progress = 30]

StepPublishingNoProgress(task, target) ==
    [task EXCEPT !.steps = Append(SetLastStepStatus(@, "completed"),
                                  [step |-> "publishing", status |-> "in_progress",
                                   message |-> <<"Publishing to " \o target \o "...">>])]

StepPublishing(task, target) ==
    [task EXCEPT !.steps = Append(SetLastStepStatus(@, "completed"),
                                  [step |-> "publishing", status |-> "in_progress",
                                   message |-> <<"Publishing to " \o target \o "...">>]),
                 !.progress = 50]

ExecutePublishSync(task, target) ==
    StepPublishing(StepValidating(StepBuilding(task)), target)

(***************************************************************************)
(* executePublish, the continuation after `await execPromise`.             *)
(***************************************************************************)
TaskCompletedWithMessage(task, target) ==
    [task EXCEPT !.steps = Append(SetLastStepStatus(@, "completed"),
                                  [step |-> "completed", status |-> "completed",
                                   message |-> <<"Published">>]),
                 !.progress = 100,
                 !.status = "completed",
                 !.error = <<"Published">>]

TaskCompleted(task, target) ==
    [task EXCEPT !.steps = Append(SetLastStepStatus(@, "completed"),
                                  [step |-> "completed", status |-> "completed",
                                   message |-> IF target = "marketplace"
                                               THEN <<"Submitted for review. You'll be notified when approved.">>
                                               ELSE <<"Published to workspace successfully!">>]),
                 !.progress = 100,
                 !.status = "completed"]

TaskFailedRequeue(task, message) ==
    [task EXCEPT !.status = "pending",
                 !.error = message,
                 !.steps = Append(SetLastStepStatus(@, "failed"),
                                  [step |-> "error", status |-> "failed",
                                   message |-> <<"Error: ">> \o message])]

TaskFailedResetProgress(task, message) ==
    [task EXCEPT !.status = "failed",
                 !.progress = 0,
                 !.error = message,
                 !.steps = Append(SetLastStepStatus(@, "failed"),
                                  [step |-> "error", status |-> "failed",
                                   message |-> <<"Error: ">> \o message])]

TaskFailedLeavesStep(task, message) ==
    [task EXCEPT !.status = "failed",
                 !.error = message,
                 !.steps = Append(@, [step |-> "error", status |-> "failed",
                                      message |-> <<"Error: ">> \o message])]

TaskFailed(task, message) ==
    [task EXCEPT !.status = "failed",
                 !.error = message,
                 !.steps = Append(SetLastStepStatus(@, "failed"),
                                  [step |-> "error", status |-> "failed",
                                   message |-> <<"Error: ">> \o message])]

(***************************************************************************)
(* exec(command, {timeout: PUBLISH_TIMEOUT_MS}, callback): the record of   *)
(* one executePublish invocation and of the child process it spawned.      *)
(* execs[i] belongs to the task object taskObjs[i].                        *)
(*   phase   start   the child runs publishCommand up to the remote call   *)
(*           remote  the remote request of publishToMarketplace or         *)
(*                   publishToWorkspace is in flight                       *)
(*           linger  publishCommand has returned, the child is kept alive  *)
(*                   by the timer of publishToWorkspace or by the          *)
(*                   abandoned request                                     *)
(*           exit0, exit1   the child has exited with that code            *)
(*           killed  exec has killed the child at its timeout              *)
(*   successCount   the packages publishCommand has published             *)
(*   settled the exec callback has run; the promise is settled and nothing *)
(*           of the child is left (phase done)                             *)
(***************************************************************************)
PUBLISH_TIMEOUT_MS == 180000
TIMEOUT_MS == 180000

NewExec(args, target) ==
    [args |-> args, target |-> target, phase |-> "start", stderr |-> <<>>,
     successCount |-> 0, settled |-> FALSE]

SettledExec ==
    [args |-> <<>>, target |-> "", phase |-> "done", stderr |-> <<>>, successCount |-> 0,
     settled |-> TRUE]

ChildAlive(e) == e.phase \in {"start", "remote", "linger"}
ChildToWorkspace(e) == e.args[3] = "--workspace"

(***************************************************************************)
(* POST /api/blocks/:name/publish                                          *)
(***************************************************************************)
FindResource(name) == name \in resources

ValidateRequestNoWorkspaceId(name, target, workspaceId) ==
    IF ~FindResource(name) THEN 404
    ELSE IF Falsy(target) \/ (target # "marketplace" /\ target # "workspace") THEN 400
    ELSE 200

ValidateRequest(name, target, workspaceId) ==
    IF ~FindResource(name) THEN 404
    ELSE IF Falsy(target) \/ (target # "marketplace" /\ target # "workspace") THEN 400
    ELSE IF target = "workspace" /\ Falsy(workspaceId) THEN 400
    ELSE 200

MapSet(m, k, v) == [x \in (DOMAIN m) \cup {k} |-> IF x = k THEN v ELSE m[x]]

PublishCreate(name, target, workspaceId, versionBump) ==
    LET code == ValidateRequest(name, target, workspaceId)
        n == Len(taskObjs) + 1
    IN  IF code # 200
        THEN /\ resp' = [code |-> code, taskId |-> NoId]
             /\ UNCHANGED <<taskObjs, publishTasks, execs, streams>>
        ELSE /\ n <= MaxTasks
             /\ \E t \in ClockReadings, r \in RndVals :
                   LET taskId == TaskId(t, r)
                   IN  /\ publishTasks' = MapSet(publishTasks, taskId, n)
                       /\ taskObjs' = Append(taskObjs,
                                             ExecutePublishSync(NewTask(taskId, name), target))
                       /\ resp' = [code |-> 200, taskId |-> taskId]
             /\ execs' = Append(execs, NewExec(PublishArgs(name, target, workspaceId, versionBump), target))
             /\ UNCHANGED streams

(***************************************************************************)
(* The child process `cmssy publish ...` (publishCommand).                 *)
(***************************************************************************)
ChildNotConfigured(i) ==
    /\ execs[i].phase = "start"
    /\ execs' = [execs EXCEPT ![i].phase = "exit1",
                              ![i].stderr = @ \o NotConfiguredMsg]
    /\ UNCHANGED <<taskObjs, publishTasks, resp, streams>>

ChildSendRequest(i) ==
    /\ execs[i].phase = "start"
    /\ execs' = [execs EXCEPT ![i].phase = "remote"]
    /\ UNCHANGED <<taskObjs, publishTasks, resp, streams>>

AfterPublishLoop(e) == IF ChildToWorkspace(e) THEN "linger" ELSE "exit0"

ChildRemoteOk(i) ==
    /\ execs[i].phase = "remote"
    /\ execs' = [execs EXCEPT ![i].phase = AfterPublishLoop(execs[i]),
                              ![i].successCount = 1]
    /\ UNCHANGED <<taskObjs, publishTasks, resp, streams>>

ChildRemoteFails(i, outcome) ==
    /\ execs[i].phase = "remote"
    /\ outcome \in {"rejected", "transport"}
    /\ execs' = [execs EXCEPT ![i].phase = AfterPublishLoop(execs[i]),
                              ![i].stderr = @ \o RemoteFailedMsg]
    /\ UNCHANGED <<taskObjs, publishTasks, resp, streams>>

ChildUploadTimeout(i) ==
    /\ execs[i].phase = "remote"
    /\ ChildToWorkspace(execs[i])
    /\ execs' = [execs EXCEPT ![i].phase = "linger",
                              ![i].stderr = @ \o UploadTimedOutMsg]
    /\ UNCHANGED <<taskObjs, publishTasks, resp, streams>>

ChildLingerEnds(i) ==
    /\ execs[i].phase = "linger"
    /\ execs' = [execs EXCEPT ![i].phase = "exit0"]
    /\ UNCHANGED <<taskObjs, publishTasks, resp, streams>>

(***************************************************************************)
(* The timeout of exec and the exec callback with the rest of              *)
(* executePublish.                                                         *)
(***************************************************************************)
ExecWithoutTimeout(i) ==
    /\ ChildAlive(execs[i])
    /\ FALSE
    /\ UNCHANGED <<taskObjs, publishTasks, execs, resp, streams>>

ExecTimeout(i) ==
    /\ ChildAlive(execs[i])
    /\ execs' = [execs EXCEPT ![i].phase = "killed"]
    /\ UNCHANGED <<taskObjs, publishTasks, resp, streams>>

CallbackPendingAgain(e) == ~ChildAlive(e)

CallbackPending(e) == ~ChildAlive(e) /\ ~e.settled

ExecError(e) == e.phase # "exit0"

RejectMessage(e) == IF e.stderr # <<>> THEN e.stderr ELSE CommandFailed(e.args)

ExecCallbackByBlockName(i) ==
    /\ CallbackPending(execs[i])
    /\ execs' = [execs EXCEPT ![i] = SettledExec]
    /\ taskObjs' = [j \in DOMAIN taskObjs |->
                       IF taskObjs[j].blockName # taskObjs[i].blockName \/ execs[j].settled
                       THEN taskObjs[j]
                       ELSE IF ExecError(execs[i])
                       THEN TaskFailed(taskObjs[j], RejectMessage(execs[i]))
                       ELSE TaskCompleted(taskObjs[j], execs[i].target)]
    /\ UNCHANGED <<publishTasks, resp, streams>>

ExecCallback(i) ==
    /\ CallbackPending(execs[i])
    /\ execs' = [execs EXCEPT ![i] = SettledExec]
    /\ taskObjs' = [taskObjs EXCEPT ![i] =
                       IF ExecError(execs[i])
                       THEN TaskFailed(@, RejectMessage(execs[i]))
                       ELSE TaskCompleted(@, execs[i].target)]
    /\ UNCHANGED <<publishTasks, resp, streams>>

(***************************************************************************)
(* GET /api/publish/progress/:taskId.  streams holds the open streams:     *)
(* the interval of a stream runs until the server has ended the stream     *)
(* (ended) or the request has closed, and a closed request leaves nothing  *)
(* behind on the server.  The writes to the response change no state of    *)
(* the server.                                                             *)
(***************************************************************************)
Terminal(task) == task.status \in {"completed", "failed"}

GetTask(taskId) ==
    IF taskId \in DOMAIN publishTasks THEN <<taskObjs[publishTasks[taskId]]>> ELSE <<>>

(* the task object that publishTasks.get(taskId) returns; 0 for undefined *)
TaskOf(taskId) == IF taskId \in DOMAIN publishTasks THEN publishTasks[taskId] ELSE 0

OpenProgressStream(taskId) ==
    /\ Len(streams) < MaxStreams
    /\ streams' = Append(streams, [taskId |-> taskId, ended |-> FALSE,
                                   opened |-> TaskOf(taskId)])
    /\ UNCHANGED <<taskObjs, publishTasks, execs, resp>>

PollProgressEvict(s) ==
    /\ ~streams[s].ended
    /\ LET found == GetTask(streams[s].taskId)
       IN  IF found = <<>>
           THEN UNCHANGED <<streams, publishTasks>>
           ELSE /\ streams' = [streams EXCEPT ![s].ended = Terminal(found[1])]
                /\ publishTasks' = IF Terminal(found[1])
                                   THEN [k \in (DOMAIN publishTasks) \ {streams[s].taskId}
                                           |-> publishTasks[k]]
                                   ELSE publishTasks
    /\ UNCHANGED <<taskObjs, execs, resp>>

PollProgress(s) ==
    /\ ~streams[s].ended
    /\ LET found == GetTask(streams[s].taskId)
       IN  IF found = <<>>
           THEN UNCHANGED streams
           ELSE streams' = [streams EXCEPT ![s].ended = Terminal(found[1])]
    /\ UNCHANGED <<taskObjs, publishTasks, execs, resp>>

Remove(seq, k) == [x \in 1..(Len(seq) - 1) |-> IF x < k THEN seq[x] ELSE seq[x + 1]]

CloseProgressStream(s) ==
    /\ streams' = Remove(streams, s)
    /\ UNCHANGED <<taskObjs, publishTasks, execs, resp>>

(***************************************************************************)
(* The file watcher of devCommand (setupWatcher), the compiler             *)
(* (buildResource) and the hot-reload notifier (GET /events, sseClients).  *)
(*                                                                         *)
(* A path is the sequence of its parts, as filepath.split(path.sep) gives  *)
(* them; chokidar reports absolute paths because the watched roots are     *)
(* absolute.                                                               *)
(***************************************************************************)
MaxPending == 2
MaxBurst == 2
MaxHandlers == 2
MaxSessions == 2

Cwd == <<"", "proj">>
FilePath(rel) == Cwd \o rel

Includes(seq, x) == \E k \in DOMAIN seq : seq[k] = x

(* Array.prototype.indexOf, 1-based; 0 stands for -1. *)
IndexOf(seq, x) ==
    IF Includes(seq, x)
    THEN CHOOSE k \in DOMAIN seq : seq[k] = x /\ \A j \in 1..(k - 1) : seq[j] # x
    ELSE 0

Basename(p) == p[Len(p)]

(* filepath.endsWith(name): no file name of the model ends with one of the *)
(* tested names without being equal to it.                                 *)
EndsWith(p, name) == Basename(p) = name

IsPrefix(a, b) == Len(a) <= Len(b) /\ \A k \in DOMAIN a : a[k] = b[k]

(***************************************************************************)
(* The registry: the array `resources` of devCommand, filled once by       *)
(* scanResources.  Only the fields the watcher changes are mutable.        *)
(***************************************************************************)
(* A schema is the sequence of its fields; a field has a key, a type, the   *)
(* options of a select and the keys of the nested schema of a repeater.    *)
Field(key, type, options, schema) ==
    [key |-> key, type |-> type, options |-> options, schema |-> schema]

Heading == Field("heading", "singleLine", <<>>, <<>>)
Cta == Field("cta", "select", <<"primary", "ghost">>, <<>>)
CtaNoOptions == Field("cta", "select", <<>>, <<>>)
ItemsEmpty == Field("items", "repeater", <<>>, <<>>)

ConfigA == [loadable |-> TRUE, name |-> "Hero", category |-> "marketing", schema |-> <<Heading>>]
ConfigB == [loadable |-> TRUE, name |-> "", category |-> "layout", schema |-> <<Heading, Cta>>]
ConfigBroken == [loadable |-> FALSE, name |-> "", category |-> "", schema |-> <<>>]
ConfigNoOptions == [loadable |-> TRUE, name |-> "Hero", category |-> "marketing",
                    schema |-> <<Heading, CtaNoOptions>>]
ConfigEmptyRepeater == [loadable |-> TRUE, name |-> "Hero", category |-> "marketing",
                        schema |-> <<Heading, ItemsEmpty>>]

(* spec-modelled: validateSchema rejects select fields without options and *)
(* repeater fields without a nested schema                                 *)
ValidateSchema(schema) ==
    \A k \in DOMAIN schema :
        /\ schema[k].type = "select" => schema[k].options # <<>>
        /\ schema[k].type = "repeater" => schema[k].schema # <<>>

DisplayName(blockConfig, name) == IF blockConfig.name # "" THEN blockConfig.name ELSE name

(* the preview data of a resource without a preview.json *)
EmptyPreview == "{}"

ScannedResource(type, name, blockConfig, version) ==
    [type |-> type, name |-> name,
     displayName |-> DisplayName(blockConfig, name),
     category |-> blockConfig.category,
     schema |-> blockConfig.schema,
     version |-> version,
     previewData |-> EmptyPreview]

ResourcePath(resource) == FilePath(<<resource.type \o "s", resource.name>>)

ScannedRegistry ==
    << ScannedResource("block", "hero", ConfigA, "1.0.0"),
       ScannedResource("block", "styles", ConfigA, "1.0.0") >>

(* a project with blocks/hero and templates/hero *)
ScannedWithTemplate ==
    << ScannedResource("block", "hero", ConfigA, "1.0.0"),
       ScannedResource("template", "hero", ConfigA, "1.0.0") >>

(* resources.find((r) => r.name === name): the index of the first match, 0 if none *)
FindByName(name) ==
    IF \E k \in DOMAIN registry : registry[k].name = name
    THEN CHOOSE k \in DOMAIN registry :
            registry[k].name = name /\ \A j \in 1..(k - 1) : registry[j].name # name
    ELSE 0

(***************************************************************************)
(* The project files.  For the resource at index k of the registry:        *)
(*   source[k]    the state of its source tree, see Entry and Css          *)
(*   config[k]    the content of its block.config.ts                       *)
(*   manifest[k]  the version in its package.json                          *)
(* devDir is .cmssy/dev: the built script and stylesheet of each resource, *)
(* served under /assets.                                                   *)
(***************************************************************************)
SourceTrees == {"v1", "v2", "broken", "missing"}
Entry(tree) == tree
Css(tree) == IF tree \in {"v2", "broken"} THEN "v2" ELSE "v1"

ConfigContents == {ConfigA, ConfigB, ConfigBroken}
ManifestContents == {"1.0.0", "1.0.1"}
ManifestUnparsable == "{"

(* fs.readJsonSync: the parsed manifest, here its version; <<>> stands for *)
(* the SyntaxError it throws on a file that is not JSON                    *)
ReadJsonSync(content) == IF content = ManifestUnparsable THEN <<>> ELSE <<content>>
NoContent == "-"

PreviewDocs == {EmptyPreview, "{title}"}

ScannedDisk ==
    [source |-> [k \in DOMAIN ScannedRegistry |-> "v1"],
     config |-> [k \in DOMAIN ScannedRegistry |-> ConfigA],
     manifest |-> [k \in DOMAIN ScannedRegistry |-> "1.0.0"],
     preview |-> [k \in DOMAIN ScannedRegistry |-> EmptyPreview]]

PreviewPath(resource) == ResourcePath(resource) \o <<"preview.json">>
TypesPath(resource) == ResourcePath(resource) \o <<"src", "block.d.ts">>

Owner(p) ==
    IF \E k \in DOMAIN registry : IsPrefix(ResourcePath(registry[k]), p)
    THEN CHOOSE k \in DOMAIN registry : IsPrefix(ResourcePath(registry[k]), p)
    ELSE 0

IsConfigFile(p) == Owner(p) # 0 /\ p = ResourcePath(registry[Owner(p)]) \o <<"block.config.ts">>
IsManifestFile(p) == Owner(p) # 0 /\ p = ResourcePath(registry[Owner(p)]) \o <<"package.json">>
IsPreviewFile(p) == Owner(p) # 0 /\ p = PreviewPath(registry[Owner(p)])
IsSourceFile(p) == Owner(p) # 0 /\ ~IsConfigFile(p) /\ ~IsManifestFile(p) /\ ~IsPreviewFile(p)

ContentsFor(p) ==
    IF IsConfigFile(p) THEN ConfigContents
    ELSE IF IsManifestFile(p) THEN ManifestContents
    ELSE IF IsPreviewFile(p) THEN PreviewDocs
    ELSE IF IsSourceFile(p) THEN SourceTrees
    ELSE {NoContent}

WriteFile(d, p, content) ==
    IF IsConfigFile(p) THEN [d EXCEPT !.config[Owner(p)] = content]
    ELSE IF IsManifestFile(p) THEN [d EXCEPT !.manifest[Owner(p)] = content]
    ELSE IF IsPreviewFile(p) THEN [d EXCEPT !.preview[Owner(p)] = content]
    ELSE IF IsSourceFile(p) THEN [d EXCEPT !.source[Owner(p)] = content]
    ELSE d

(***************************************************************************)
(* chokidar.watch(watchPaths, {ignored, awaitWriteFinish}): a write to a   *)
(* watched file that is not ignored opens a pending write for its path,    *)
(* unless one is open already; the change event of the path is emitted     *)
(* when the pending write is found finished.                               *)
(***************************************************************************)
WatchRoots == {FilePath(<<"blocks">>), FilePath(<<"templates">>), FilePath(<<"styles">>)}
Watched(p) == \E root \in WatchRoots : IsPrefix(root, p)

IgnoredDirsOnly(p) ==
    \/ Includes(p, ".cmssy")
    \/ Includes(p, "node_modules")
    \/ Includes(p, ".git")

Ignored(p) ==
    \/ Basename(p) \in {"preview.json", "block.d.ts"}
    \/ Includes(p, ".cmssy")
    \/ Includes(p, "node_modules")
    \/ Includes(p, ".git")

(* pendingWrites maps each path with a pending write to the number of      *)
(* writes that have fallen into it.                                        *)
AwaitWriteFinish(pending, p) ==
    IF Watched(p) /\ ~Ignored(p)
    THEN [q \in (DOMAIN pending) \cup {p} |->
             IF q # p THEN pending[q]
             ELSE IF p \in DOMAIN pending THEN pending[p] + 1 ELSE 1]
    ELSE pending

FileWritten(p, content) ==
    /\ IF p \in DOMAIN pendingWrites THEN pendingWrites[p] < MaxBurst
       ELSE Cardinality(DOMAIN pendingWrites) < MaxPending
    /\ disk' = WriteFile(disk, p, content)
    /\ pendingWrites' = IF server = "running" THEN AwaitWriteFinish(pendingWrites, p)
                        ELSE pendingWrites
    /\ UNCHANGED <<registry, devDir, handlers, sseClients, sessions, compiled, server>>

(* A new file is created below a watched root: chokidar emits add for it,  *)
(* and watcher.on("add") prints the path.                                  *)
FileAdded(p, content) ==
    /\ Watched(p) /\ ~Ignored(p)
    /\ disk' = WriteFile(disk, p, content)
    /\ UNCHANGED <<registry, devDir, pendingWrites, handlers, sseClients, sessions,
                   compiled, server>>

(***************************************************************************)
(* The reload messages and the sessions.  sessions[h] is the browser side  *)
(* of the connection with handle h (the response object res of its         *)
(* GET /events request); sseClients holds the handles the server keeps.    *)
(*   kind      preview  the page of generatePreviewHTML for block `scope`  *)
(*             ui       the dev UI (app.js) with currentBlock `scope`      *)
(*   state     open     connected                                          *)
(*             gone     the client has disconnected, the close event of    *)
(*                      the request has not been handled yet               *)
(*             closed   the close event has been handled                   *)
(*   reloaded  the last message that made the client reload                *)
(***************************************************************************)
ResourceReload(name, isConfigChange) ==
    [type |-> "reload", block |-> name,
     configChanged |-> IF isConfigChange THEN "true" ELSE "false",
     stylesChanged |-> Undefined]

AllReload ==
    [type |-> "reload", block |-> "all", configChanged |-> Undefined,
     stylesChanged |-> "true"]

NoMessage ==
    [type |-> "none", block |-> "", configChanged |-> Undefined,
     stylesChanged |-> Undefined]

SessionKinds == {"preview", "ui"}

(* evtSource.onmessage of the preview page and of the dev UI *)
Reacts(kind, scope, data) ==
    /\ data.type = "reload"
    /\ kind = "ui" => (data.block = "" \/ data.block = scope)

Deliver(session, data) ==
    IF session.state = "open" /\ Reacts(session.kind, session.scope, data)
    THEN [session EXCEPT !.reloaded = data]
    ELSE session

BroadcastUntilFailure(data) ==
    LET failed == {k \in DOMAIN sseClients : sessions[sseClients[k]].state # "open"}
        reached(h) == /\ Includes(sseClients, h)
                      /\ \A k \in failed : IndexOf(sseClients, h) < k
    IN  /\ sessions' = [h \in DOMAIN sessions |->
                           IF reached(h) THEN Deliver(sessions[h], data)
                           ELSE sessions[h]]
        /\ UNCHANGED sseClients

(* sseClients.forEach((client) => { try { client.write(...) } catch {} }) *)
Broadcast(data) ==
    /\ sessions' = [h \in DOMAIN sessions |->
                       IF Includes(sseClients, h) THEN Deliver(sessions[h], data)
                       ELSE sessions[h]]
    /\ UNCHANGED sseClients

(***************************************************************************)
(* watcher.on("change", async (filepath) => ...).  handlers holds the      *)
(* invocations of the listener that are suspended at an await:             *)
(*   pc     load     await loadBlockConfig(resource.path)                  *)
(*          types    await generateTypes(resource.path, blockConfig.schema)*)
(*          bundle   await buildResource: esbuild has been called          *)
(*          read     ... the bundler has read the sources                  *)
(*          bundled  ... the bundler has finished, its result waits for    *)
(*                   the event loop                                        *)
(*   cur    the registry index of the resource being loaded or built       *)
(*   todo   the resources the loop over `resources` still has to build     *)
(*   read   the source tree the bundler has read                           *)
(*   built  the resources buildResource has been called for, in order      *)
(***************************************************************************)
NewHandler(p) ==
    [path |-> p, pc |-> "start", cur |-> 0, todo |-> <<>>, read |-> NoContent,
     built |-> <<>>]

IsStylesChange(p) == Includes(p, "styles")
IsConfigChange(p) == EndsWith(p, "block.config.ts")

(* the index of "blocks", else of "templates" *)
BlockOrTemplateIndex(p) ==
    IF IndexOf(p, "blocks") # 0 THEN IndexOf(p, "blocks") ELSE IndexOf(p, "templates")

ResourceName(p) ==
    IF BlockOrTemplateIndex(p) + 1 \in DOMAIN p THEN p[BlockOrTemplateIndex(p) + 1]
    ELSE Undefined

(* buildResource with strict false returns at once, with a warning, for a  *)
(* resource whose entry point does not exist: the loop goes on to the next *)
(* resource within the same turn.                                          *)
RECURSIVE SkipMissing(_)
SkipMissing(todo) ==
    IF todo = <<>> THEN <<>>
    ELSE IF Entry(disk.source[Head(todo)]) = "missing" THEN SkipMissing(Tail(todo))
    ELSE todo

Put(i, h) == IF i = 0 THEN Append(handlers, h) ELSE [handlers EXCEPT ![i] = h]
Drop(i) == IF i = 0 THEN handlers ELSE Remove(handlers, i)

ReloadForResource(h) == ResourceReload(registry[h.cur].name, IsConfigChange(h.path))

ReloadFor(h) ==
    IF IsStylesChange(h.path) THEN AllReload
    ELSE ResourceReload(registry[h.cur].name, IsConfigChange(h.path))

RunBuildsNotifyFirst(i, h, todo) ==
    LET rest == SkipMissing(todo)
        called == IF rest = <<>> THEN Len(todo) ELSE Len(todo) - Len(rest) + 1
        built == h.built \o SubSeq(todo, 1, called)
    IN  IF rest # <<>>
        THEN /\ handlers' = Put(i, [h EXCEPT !.pc = "bundle", !.cur = Head(rest),
                                             !.todo = Tail(rest), !.read = NoContent,
                                             !.built = built])
             /\ Broadcast(ReloadFor([h EXCEPT !.cur = Head(rest)]))
        ELSE /\ handlers' = Drop(i)
             /\ Broadcast(ReloadFor(h))

(* The listener from a call of buildResource on: the calls for `todo`, up  *)
(* to the next await of the bundler or to the broadcast at its end.        *)
RunBuilds(i, h, todo) ==
    LET rest == SkipMissing(todo)
        called == IF rest = <<>> THEN Len(todo) ELSE Len(todo) - Len(rest) + 1
        built == h.built \o SubSeq(todo, 1, called)
    IN  IF rest # <<>>
        THEN /\ handlers' = Put(i, [h EXCEPT !.pc = "bundle", !.cur = Head(rest),
                                             !.todo = Tail(rest), !.read = NoContent,
                                             !.built = built])
             /\ UNCHANGED <<sessions, sseClients>>
        ELSE /\ handlers' = Drop(i)
             /\ Broadcast(ReloadFor(h))

AllResources == [k \in 1..Len(registry) |-> k]

ApplyConfigRenames(resource, blockConfig) ==
    [resource EXCEPT !.name = IF blockConfig.name # "" THEN blockConfig.name ELSE @,
                     !.displayName = DisplayName(blockConfig, resource.name),
                     !.category = blockConfig.category,
                     !.schema = blockConfig.schema]

ApplyConfig(resource, blockConfig) ==
    [resource EXCEPT !.displayName = DisplayName(blockConfig, resource.name),
                     !.category = blockConfig.category,
                     !.schema = blockConfig.schema]

(* The listener up to its first await (or to its end). *)
HandleChange(p) ==
    LET k == FindByName(ResourceName(p))
    IN  IF EndsWith(p, "preview.json") \/ EndsWith(p, "block.d.ts")
        THEN UNCHANGED <<registry, handlers, sessions, sseClients>>
        ELSE IF IsStylesChange(p)
        THEN /\ RunBuilds(0, NewHandler(p), AllResources)
             /\ UNCHANGED registry
        ELSE IF BlockOrTemplateIndex(p) = 0 \/ k = 0
        THEN UNCHANGED <<registry, handlers, sessions, sseClients>>
        ELSE IF IsConfigChange(p)
        THEN /\ handlers' = Append(handlers, [NewHandler(p) EXCEPT !.pc = "load", !.cur = k])
             /\ UNCHANGED <<registry, sessions, sseClients>>
        ELSE IF EndsWith(p, "package.json") /\ ReadJsonSync(disk.manifest[k]) = <<>>
        THEN UNCHANGED <<registry, handlers, sessions, sseClients>>
        ELSE /\ registry' = IF EndsWith(p, "package.json")
                            THEN [registry EXCEPT ![k].version = ReadJsonSync(disk.manifest[k])[1]]
                            ELSE registry
             /\ RunBuilds(0, [NewHandler(p) EXCEPT !.cur = k], <<k>>)

(* The listener is an async function without a try around its body: an     *)
(* exception in it rejects the promise the listener returns, which nobody  *)
(* handles.                                                                *)
ListenerThrows(p) ==
    LET k == FindByName(ResourceName(p))
    IN  /\ ~EndsWith(p, "preview.json") /\ ~EndsWith(p, "block.d.ts")
        /\ ~IsStylesChange(p)
        /\ BlockOrTemplateIndex(p) # 0 /\ k # 0
        /\ ~IsConfigChange(p)
        /\ EndsWith(p, "package.json")
        /\ ReadJsonSync(disk.manifest[k]) = <<>>

(* What the runtime does with an unhandled rejection depends on its        *)
(* version and flags: it ends the process (throw, the default from         *)
(* Node.js 15 on) or prints a warning and goes on (warn).                  *)
UnhandledRejections == {"throw", "warn"}
UnhandledRejection(mode) == IF mode = "throw" THEN "crashed" ELSE "running"

AfterEmitStillPending(pending, p) == pending

AfterEmit(pending, p) == [q \in (DOMAIN pending) \ {p} |-> pending[q]]

(* chokidar finds the pending write of p finished and emits change *)
EmitChange(p) ==
    /\ server = "running"
    /\ p \in DOMAIN pendingWrites
    /\ Len(handlers) < MaxHandlers
    /\ pendingWrites' = AfterEmit(pendingWrites, p)
    /\ HandleChange(p)
    /\ \E mode \in UnhandledRejections :
          server' = IF ListenerThrows(p) THEN UnhandledRejection(mode) ELSE server
    /\ UNCHANGED <<disk, devDir, compiled>>

(* spec-modelled: loadBlockConfig gives the config, or null when there is  *)
(* no config that can be loaded                                            *)
LoadBlockConfig(k) == IF disk.config[k].loadable THEN <<disk.config[k]>> ELSE <<>>

ConfigLoaded(i) ==
    /\ server = "running"
    /\ handlers[i].pc = "load"
    /\ LET h == handlers[i]
           blockConfig == LoadBlockConfig(h.cur)
       IN  IF blockConfig # <<>>
           THEN /\ registry' = [registry EXCEPT ![h.cur] = ApplyConfig(@, blockConfig[1])]
                /\ handlers' = [handlers EXCEPT ![i].pc = "types"]
                /\ UNCHANGED <<sessions, sseClients>>
           ELSE /\ RunBuilds(i, h, <<h.cur>>)
                /\ UNCHANGED registry
    /\ UNCHANGED <<disk, devDir, pendingWrites, compiled, server>>

(* generateTypes has written src/block.d.ts, under the watched root *)
TypesGenerated(i) ==
    /\ server = "running"
    /\ handlers[i].pc = "types"
    /\ pendingWrites' = AwaitWriteFinish(pendingWrites, TypesPath(registry[handlers[i].cur]))
    /\ RunBuilds(i, handlers[i], <<handlers[i].cur>>)
    /\ UNCHANGED <<registry, disk, devDir, compiled, server>>

(***************************************************************************)
(* buildResource(resource, devDir, {outputMode: "flat", strict: false})    *)
(* from the call of esbuild on.  The bundler is another process: it reads  *)
(* the sources, then writes the script or reports errors; the stylesheet   *)
(* is written by processCSS when buildResource goes on after the await.    *)
(***************************************************************************)
BundlerReads(i) ==
    /\ handlers[i].pc = "bundle"
    /\ handlers' = [handlers EXCEPT ![i].pc = "read",
                                    ![i].read = disk.source[handlers[i].cur]]
    /\ UNCHANGED <<registry, disk, devDir, pendingWrites, sseClients, sessions, compiled, server>>

Bundles(tree) == Entry(tree) \in {"v1", "v2"}

BundlerExitsWritesAlways(i) ==
    /\ handlers[i].pc = "read"
    /\ handlers' = [handlers EXCEPT ![i].pc = "bundled"]
    /\ devDir' = [devDir EXCEPT ![handlers[i].cur].script = Entry(handlers[i].read)]
    /\ UNCHANGED <<registry, disk, pendingWrites, sseClients, sessions, compiled, server>>

BundlerExits(i) ==
    /\ handlers[i].pc = "read"
    /\ handlers' = [handlers EXCEPT ![i].pc = "bundled"]
    /\ devDir' = IF Bundles(handlers[i].read)
                 THEN [devDir EXCEPT ![handlers[i].cur].script = Entry(handlers[i].read)]
                 ELSE devDir
    /\ UNCHANGED <<registry, disk, pendingWrites, sseClients, sessions, compiled, server>>

BuildReturns(i) ==
    /\ server = "running"
    /\ handlers[i].pc = "bundled"
    /\ devDir' = IF Bundles(handlers[i].read)
                 THEN [devDir EXCEPT ![handlers[i].cur].style = Css(disk.source[handlers[i].cur])]
                 ELSE devDir
    /\ RunBuilds(i, handlers[i], handlers[i].todo)
    /\ UNCHANGED <<registry, disk, pendingWrites, compiled, server>>

(***************************************************************************)
(* The turn of BuildReturns in a project with a postcss.config.js, in two  *)
(* halves: processCSS calls execSync("npx postcss ..."), which returns     *)
(* when the PostCSS process has exited.  While a handler is at pc css the  *)
(* server is inside execSync and runs no other callback.                   *)
(***************************************************************************)
CssCompilerStarts(i) ==
    /\ server = "running"
    /\ handlers[i].pc = "bundled"
    /\ Bundles(handlers[i].read)
    /\ handlers' = [handlers EXCEPT ![i].pc = "css"]
    /\ UNCHANGED <<registry, disk, devDir, pendingWrites, sseClients, sessions, compiled,
                   server>>

CssCompilerExits(i) ==
    /\ handlers[i].pc = "css"
    /\ devDir' = [devDir EXCEPT ![handlers[i].cur].style = Css(disk.source[handlers[i].cur])]
    /\ RunBuilds(i, handlers[i], handlers[i].todo)
    /\ UNCHANGED <<registry, disk, pendingWrites, compiled, server>>

ExecSyncBlocks == \E i \in DOMAIN handlers : handlers[i].pc = "css"

(***************************************************************************)
(* GET /events and the close event of its request.                         *)
(***************************************************************************)
Subscribe(kind, scope) ==
    /\ server = "running"
    /\ Len(sessions) < MaxSessions
    /\ sessions' = Append(sessions, [kind |-> kind, scope |-> scope, state |-> "open",
                                     reloaded |-> NoMessage])
    /\ sseClients' = Append(sseClients, Len(sessions) + 1)
    /\ UNCHANGED <<registry, disk, devDir, pendingWrites, handlers, compiled, server>>

ClientDisconnects(h) ==
    /\ sessions[h].state = "open"
    /\ sessions' = [sessions EXCEPT ![h].state = "gone"]
    /\ UNCHANGED <<registry, disk, devDir, pendingWrites, handlers, sseClients, compiled, server>>

SpliceFirst(clients, h) == Remove(clients, 1)

Splice(clients, h) ==
    IF IndexOf(clients, h) # 0 THEN Remove(clients, IndexOf(clients, h)) ELSE clients

CloseEvent(h) ==
    /\ server = "running"
    /\ sessions[h].state = "gone"
    /\ sessions' = [sessions EXCEPT ![h].state = "closed"]
    /\ sseClients' = Splice(sseClients, h)
    /\ UNCHANGED <<registry, disk, devDir, pendingWrites, handlers, compiled, server>>

(***************************************************************************)
(* POST /api/preview/:blockName.  fs.writeJsonSync either writes the       *)
(* document or throws with the file as it was (the file cannot be opened   *)
(* for writing).                                                           *)
(***************************************************************************)
WriteOutcomes == {"written", "refused"}

SavePreview(blockName, newPreviewData, outcome) ==
    LET k == FindByName(blockName)
    IN  /\ server = "running"
        /\ IF k = 0
           THEN /\ resp' = [code |-> 404, taskId |-> NoId]
                /\ UNCHANGED <<registry, disk, pendingWrites>>
           ELSE /\ registry' = [registry EXCEPT ![k].previewData = newPreviewData]
                /\ IF outcome = "written"
                   THEN /\ disk' = [disk EXCEPT !.preview[k] = newPreviewData]
                        /\ pendingWrites' = AwaitWriteFinish(pendingWrites,
                                                             PreviewPath(registry[k]))
                        /\ resp' = [code |-> 200, taskId |-> NoId]
                   ELSE /\ resp' = [code |-> 500, taskId |-> NoId]
                        /\ UNCHANGED <<disk, pendingWrites>>
        /\ UNCHANGED <<taskObjs, publishTasks, execs, streams>>
        /\ UNCHANGED <<devDir, handlers, sseClients, sessions, compiled, server>>

(***************************************************************************)
(* buildResource called as a whole with any options, as a caller other     *)
(* than the watcher calls it; compiled records the call and how its        *)
(* promise settled.                                                        *)
(***************************************************************************)
StrictOptions == {Undefined, "true", "false"}
OutputModes == {Undefined, "versioned", "flat"}
BuildOptions == [strict : StrictOptions, outputMode : OutputModes]
DefaultOptions == [strict |-> Undefined, outputMode |-> Undefined]

Strict(options) == IF options.strict = Undefined THEN TRUE ELSE options.strict = "true"
OutputMode(options) == IF options.outputMode = Undefined THEN "versioned" ELSE options.outputMode

NotCalled == [resource |-> 0, options |-> DefaultOptions, entryExists |-> TRUE, settled |-> "none"]

Settles(tree, options) ==
    IF Entry(tree) = "missing"
    THEN IF Strict(options) THEN "rejected" ELSE "resolved"
    ELSE IF ~Bundles(tree)
    THEN IF Strict(options) THEN "rejected" ELSE "resolved"
    ELSE "resolved"

BuildResource(k, options) ==
    LET tree == disk.source[k] IN
    /\ compiled' = [resource |-> k, options |-> options,
                    entryExists |-> Entry(tree) # "missing",
                    settled |-> Settles(tree, options)]
    /\ devDir' = IF Bundles(tree) /\ OutputMode(options) = "flat"
                 THEN [devDir EXCEPT ![k] = [script |-> Entry(tree), style |-> Css(tree)]]
                 ELSE devDir
    /\ UNCHANGED <<registry, disk, pendingWrites, handlers, sseClients, sessions, server>>

InitWatcherOn(scanned) ==
    /\ registry = scanned
    /\ disk = ScannedDisk
    /\ devDir = [k \in DOMAIN ScannedRegistry |-> [script |-> "v1", style |-> "v1"]]
    /\ pendingWrites = <<>>
    /\ handlers = <<>>
    /\ sseClients = <<>>
    /\ sessions = <<>>
    /\ compiled = NotCalled
    /\ server = "running"

InitWatcher == InitWatcherOn(ScannedRegistry)

InitTracker ==
    /\ taskObjs = <<>>
    /\ publishTasks = <<>>
    /\ execs = <<>>
    /\ resp = [code |-> 0, taskId |-> NoId]
    /\ streams = <<>>

Init == InitTracker /\ InitWatcher

InitWithTemplate == InitTracker /\ InitWatcherOn(ScannedWithTemplate)

Next ==
    \/ /\ \E name \in RequestNames, target \in RequestTargets,
             workspaceId \in RequestWorkspaceIds, versionBump \in RequestVersionBumps :
             PublishCreate(name, target, workspaceId, versionBump)
       /\ UNCHANGED watcherVars
    \/ (\E i \in DOMAIN execs : ChildNotConfigured(i)) /\ UNCHANGED watcherVars
    \/ (\E i \in DOMAIN execs : ChildSendRequest(i)) /\ UNCHANGED watcherVars
    \/ (\E i \in DOMAIN execs : ChildRemoteOk(i)) /\ UNCHANGED watcherVars
    \/ /\ \E i \in DOMAIN execs, outcome \in {"rejected", "transport"} :
             ChildRemoteFails(i, outcome)
       /\ UNCHANGED watcherVars
    \/ (\E i \in DOMAIN execs : ChildUploadTimeout(i)) /\ UNCHANGED watcherVars
    \/ (\E i \in DOMAIN execs : ChildLingerEnds(i)) /\ UNCHANGED watcherVars
    \/ (\E i \in DOMAIN execs : ExecTimeout(i)) /\ UNCHANGED watcherVars
    \/ (\E i \in DOMAIN execs : ExecCallback(i)) /\ UNCHANGED watcherVars

Spec == Init /\ [][Next]_vars

(***************************************************************************)
(* The tracker together with the clients of the progress stream.           *)
(***************************************************************************)
NextProgress ==
    \/ Next /\ Len(taskObjs') <= MaxPolledTasks
    \/ (\E taskId \in TaskIds : OpenProgressStream(taskId)) /\ UNCHANGED watcherVars
    \/ (\E s \in DOMAIN streams : PollProgress(s)) /\ UNCHANGED watcherVars
    \/ (\E s \in DOMAIN streams : CloseProgressStream(s)) /\ UNCHANGED watcherVars

SpecProgress == Init /\ [][NextProgress]_vars

(***************************************************************************)
(* The tracker with the scheduling the runtime guarantees: the timeout     *)
(* timer of exec fires while the child is alive, and the exec callback     *)
(* runs once the child is gone.  Nothing is assumed about the child.       *)
(***************************************************************************)
NextLive == Next /\ Len(taskObjs') <= MaxPolledTasks

Fairness ==
    \A i \in 1..MaxPolledTasks :
        /\ WF_vars(i \in DOMAIN execs /\ ExecTimeout(i) /\ UNCHANGED watcherVars)
        /\ WF_vars(i \in DOMAIN execs /\ ExecCallback(i) /\ UNCHANGED watcherVars)

SpecLive == Init /\ [][NextLive]_vars /\ Fairness

(***************************************************************************)
(* The tracker under the same scheduling, with progress streams that are   *)
(* opened for tasks of the task map and whose clients stay connected: the  *)
(* interval timer of a stream fires until the stream clears it.            *)
(***************************************************************************)
(* Publish requests for two resources, several of them in flight at once.  *)
(***************************************************************************)
PublishedNames == resources
PublishedTargets == {"marketplace"}

NextIndependent ==
    \/ /\ \E name \in PublishedNames, target \in PublishedTargets :
             PublishCreate(name, target, Undefined, Undefined)
       /\ UNCHANGED watcherVars
    \/ (\E i \in DOMAIN execs : ChildNotConfigured(i)) /\ UNCHANGED watcherVars
    \/ (\E i \in DOMAIN execs : ChildSendRequest(i)) /\ UNCHANGED watcherVars
    \/ (\E i \in DOMAIN execs : ChildRemoteOk(i)) /\ UNCHANGED watcherVars
    \/ (\E i \in DOMAIN execs : ExecTimeout(i)) /\ UNCHANGED watcherVars
    \/ (\E i \in DOMAIN execs : ExecCallback(i)) /\ UNCHANGED watcherVars

SpecIndependent == Init /\ [][NextIndependent]_vars

(***************************************************************************)
(* The same publish requests with progress streams that are opened for     *)
(* tasks of the task map and whose clients stay connected, under the       *)
(* scheduling the runtime guarantees: the timers and the exec callback     *)
(* run, and the interval timer of a stream fires until the stream clears   *)
(* it.                                                                     *)
(***************************************************************************)
NextStream ==
    \/ NextIndependent
    \/ /\ \E taskId \in DOMAIN publishTasks : OpenProgressStream(taskId)
       /\ UNCHANGED watcherVars
    \/ (\E s \in DOMAIN streams : PollProgress(s)) /\ UNCHANGED watcherVars

EveryExecSettles ==
    \A i \in 1..MaxTasks :
        /\ WF_vars(i \in DOMAIN execs /\ ExecTimeout(i) /\ UNCHANGED watcherVars)
        /\ WF_vars(i \in DOMAIN execs /\ ExecCallback(i) /\ UNCHANGED watcherVars)

IntervalFires ==
    \A s \in 1..MaxStreams :
        WF_vars(s \in DOMAIN streams /\ PollProgress(s) /\ UNCHANGED watcherVars)

SpecStream == Init /\ [][NextStream]_vars /\ EveryExecSettles /\ IntervalFires

(***************************************************************************)
(* The watcher with its environment: the files that are written and the    *)
(* browsers that connect.                                                  *)
(***************************************************************************)
HeroSource == FilePath(<<"blocks", "hero", "src", "Hero.tsx">>)
HeroIndex == FilePath(<<"blocks", "hero", "src", "index.tsx">>)
HeroPreview == FilePath(<<"blocks", "hero", "preview.json">>)
HeroTypes == FilePath(<<"blocks", "hero", "src", "block.d.ts">>)
HeroNestedStyle == FilePath(<<"blocks", "hero", "src", "styles", "a.css">>)
HeroConfig == FilePath(<<"blocks", "hero", "block.config.ts">>)
HeroManifest == FilePath(<<"blocks", "hero", "package.json">>)
StylesBlockConfig == FilePath(<<"blocks", "styles", "block.config.ts">>)
SharedStyle == FilePath(<<"styles", "main.css">>)
UnscannedSource == FilePath(<<"blocks", "ghost", "src", "index.tsx">>)

SavedPaths == {HeroSource, HeroConfig, SharedStyle}

SessionScopes == {"hero"}

(* Files are saved with the content they have: every kind of path, one     *)
(* listener at a time, one browser.                                        *)
MaxWatching == 1

NextWatcher ==
    \/ /\ \E p \in SavedPaths : \E content \in ContentsFor(p) : FileWritten(p, content)
       /\ disk' = disk
       /\ UNCHANGED trackerVars
    \/ /\ \E p \in DOMAIN pendingWrites : EmitChange(p)
       /\ Len(handlers') <= MaxWatching
       /\ UNCHANGED trackerVars
    \/ (\E i \in DOMAIN handlers : ConfigLoaded(i)) /\ UNCHANGED trackerVars
    \/ (\E i \in DOMAIN handlers : TypesGenerated(i)) /\ UNCHANGED trackerVars
    \/ (\E i \in DOMAIN handlers : BundlerReads(i)) /\ UNCHANGED trackerVars
    \/ (\E i \in DOMAIN handlers : BundlerExits(i)) /\ UNCHANGED trackerVars
    \/ (\E i \in DOMAIN handlers : BuildReturns(i)) /\ UNCHANGED trackerVars
    \/ /\ \E scope \in SessionScopes : Subscribe("preview", scope)
       /\ Len(sessions') <= MaxWatching
       /\ UNCHANGED trackerVars

SpecWatcher == Init /\ [][NextWatcher]_vars

(* Every kind of path is saved, config files and manifests with changed   *)
(* content; the source trees stay as they are.                             *)
WrittenPaths ==
    {HeroSource, HeroNestedStyle, HeroConfig, HeroManifest, StylesBlockConfig,
     SharedStyle, UnscannedSource}

NextClassify ==
    \/ /\ \E p \in WrittenPaths : \E content \in ContentsFor(p) : FileWritten(p, content)
       /\ disk'.source = disk.source
       /\ \A p \in DOMAIN pendingWrites' : pendingWrites'[p] = 1
       /\ UNCHANGED trackerVars
    \/ /\ \E p \in DOMAIN pendingWrites : EmitChange(p)
       /\ Len(handlers') <= MaxWatching
       /\ UNCHANGED trackerVars
    \/ (\E i \in DOMAIN handlers : ConfigLoaded(i)) /\ UNCHANGED trackerVars
    \/ (\E i \in DOMAIN handlers : TypesGenerated(i)) /\ UNCHANGED trackerVars
    \/ (\E i \in DOMAIN handlers : BundlerReads(i)) /\ UNCHANGED trackerVars
    \/ (\E i \in DOMAIN handlers : BundlerExits(i)) /\ UNCHANGED trackerVars
    \/ (\E i \in DOMAIN handlers : BuildReturns(i)) /\ UNCHANGED trackerVars
    \/ /\ \E scope \in SessionScopes : Subscribe("preview", scope)
       /\ Len(sessions') <= MaxWatching
       /\ UNCHANGED trackerVars

SpecClassify == Init /\ [][NextClassify]_vars

(* The source tree of hero is saved in every state it can have, also while *)
(* earlier rebuilds are running.                                           *)
RebuiltPaths == {HeroSource, SharedStyle}

NextRebuild ==
    \/ /\ \E p \in RebuiltPaths : \E content \in ContentsFor(p) : FileWritten(p, content)
       /\ UNCHANGED trackerVars
    \/ (\E p \in DOMAIN pendingWrites : EmitChange(p)) /\ UNCHANGED trackerVars
    \/ (\E i \in DOMAIN handlers : BundlerReads(i)) /\ UNCHANGED trackerVars
    \/ (\E i \in DOMAIN handlers : BundlerExits(i)) /\ UNCHANGED trackerVars
    \/ (\E i \in DOMAIN handlers : BuildReturns(i)) /\ UNCHANGED trackerVars

SpecRebuild == Init /\ [][NextRebuild]_vars

(* The same with one listener at a time: rebuilds that fail and rebuilds   *)
(* that succeed follow each other.                                         *)
NextFailing ==
    \/ /\ \E p \in RebuiltPaths : \E content \in ContentsFor(p) : FileWritten(p, content)
       /\ UNCHANGED trackerVars
    \/ /\ \E p \in DOMAIN pendingWrites : EmitChange(p)
       /\ Len(handlers') <= MaxWatching
       /\ UNCHANGED trackerVars
    \/ (\E i \in DOMAIN handlers : BundlerReads(i)) /\ UNCHANGED trackerVars
    \/ (\E i \in DOMAIN handlers : BundlerExits(i)) /\ UNCHANGED trackerVars
    \/ (\E i \in DOMAIN handlers : BuildReturns(i)) /\ UNCHANGED trackerVars

SpecFailing == Init /\ [][NextFailing]_vars

(* Browsers subscribe to /events and leave while rebuilds of hero          *)
(* broadcast.                                                              *)
NextNotifier ==
    \/ /\ FileWritten(HeroSource, disk.source[1])
       /\ pendingWrites'[HeroSource] = 1
       /\ UNCHANGED trackerVars
    \/ /\ EmitChange(HeroSource)
       /\ Len(handlers') <= MaxWatching
       /\ UNCHANGED trackerVars
    \/ (\E i \in DOMAIN handlers : BundlerReads(i)) /\ UNCHANGED trackerVars
    \/ (\E i \in DOMAIN handlers : BundlerExits(i)) /\ UNCHANGED trackerVars
    \/ (\E i \in DOMAIN handlers : BuildReturns(i)) /\ UNCHANGED trackerVars
    \/ Subscribe("preview", "hero") /\ UNCHANGED trackerVars
    \/ (\E h \in DOMAIN sessions : ClientDisconnects(h)) /\ UNCHANGED trackerVars
    \/ (\E h \in DOMAIN sessions : CloseEvent(h)) /\ UNCHANGED trackerVars

SpecNotifier == Init /\ [][NextNotifier]_vars

(* A preview page or the dev UI, showing hero or the block named styles,   *)
(* listens while hero and the shared styles change.                        *)
ScopedPaths == {HeroSource, SharedStyle}
ScopedTo == {"hero", "styles"}

NextScoped ==
    \/ /\ \E p \in ScopedPaths : \E content \in ContentsFor(p) : FileWritten(p, content)
       /\ disk' = disk
       /\ \A p \in DOMAIN pendingWrites' : pendingWrites'[p] = 1
       /\ UNCHANGED trackerVars
    \/ /\ \E p \in DOMAIN pendingWrites : EmitChange(p)
       /\ Len(handlers') <= MaxWatching
       /\ UNCHANGED trackerVars
    \/ (\E i \in DOMAIN handlers : BundlerReads(i)) /\ UNCHANGED trackerVars
    \/ (\E i \in DOMAIN handlers : BundlerExits(i)) /\ UNCHANGED trackerVars
    \/ (\E i \in DOMAIN handlers : BuildReturns(i)) /\ UNCHANGED trackerVars
    \/ /\ \E kind \in SessionKinds, scope \in ScopedTo : Subscribe(kind, scope)
       /\ Len(sessions') <= MaxWatching
       /\ UNCHANGED trackerVars

SpecScoped == Init /\ [][NextScoped]_vars

(* buildResource is called with every options value on resources whose    *)
(* sources are edited between the calls.                                   *)
CompiledPaths == {HeroSource}

NextCompile ==
    \/ /\ \E p \in CompiledPaths : \E content \in ContentsFor(p) : FileWritten(p, content)
       /\ UNCHANGED trackerVars
    \/ /\ \E k \in DOMAIN registry : \E options \in BuildOptions : BuildResource(k, options)
       /\ UNCHANGED trackerVars

SpecCompile == Init /\ [][NextCompile]_vars

(* The config file of hero is saved with every content a developer can    *)
(* give it, also with schemas that the scan would have rejected.           *)
ReloadedConfigs == ConfigContents \cup {ConfigNoOptions, ConfigEmptyRepeater}

NextReload ==
    \/ /\ \E content \in ReloadedConfigs : FileWritten(HeroConfig, content)
       /\ UNCHANGED trackerVars
    \/ /\ EmitChange(HeroConfig)
       /\ Len(handlers') <= MaxWatching
       /\ UNCHANGED trackerVars
    \/ (\E i \in DOMAIN handlers : ConfigLoaded(i)) /\ UNCHANGED trackerVars
    \/ (\E i \in DOMAIN handlers : TypesGenerated(i)) /\ UNCHANGED trackerVars
    \/ (\E i \in DOMAIN handlers : BundlerReads(i)) /\ UNCHANGED trackerVars
    \/ (\E i \in DOMAIN handlers : BundlerExits(i)) /\ UNCHANGED trackerVars
    \/ (\E i \in DOMAIN handlers : BuildReturns(i)) /\ UNCHANGED trackerVars

SpecReload == Init /\ [][NextReload]_vars

(* The manifest of hero is saved with a new version or with text that is  *)
(* not JSON, and its source is saved, one listener at a time.              *)
SavedManifests == ManifestContents \cup {ManifestUnparsable}

NextManifest ==
    \/ /\ \E content \in SavedManifests : FileWritten(HeroManifest, content)
       /\ UNCHANGED trackerVars
    \/ /\ FileWritten(HeroSource, disk.source[1])
       /\ UNCHANGED trackerVars
    \/ /\ \E p \in DOMAIN pendingWrites : EmitChange(p)
       /\ Len(handlers') <= MaxWatching
       /\ UNCHANGED trackerVars
    \/ (\E i \in DOMAIN handlers : BundlerReads(i)) /\ UNCHANGED trackerVars
    \/ (\E i \in DOMAIN handlers : BundlerExits(i)) /\ UNCHANGED trackerVars
    \/ (\E i \in DOMAIN handlers : BuildReturns(i)) /\ UNCHANGED trackerVars

SpecManifest == Init /\ [][NextManifest]_vars

(* An editor saves several files of hero at once ("save all") while the    *)
(* watcher is idle: the writes of a burst all fall before its first change *)
(* event.                                                                  *)
SavedTogether == {HeroSource, HeroIndex}

NextSaveAll ==
    \/ /\ \E p \in SavedTogether : \E content \in ContentsFor(p) : FileWritten(p, content)
       /\ handlers = <<>>
       /\ UNCHANGED trackerVars
    \/ (\E p \in DOMAIN pendingWrites : EmitChange(p)) /\ UNCHANGED trackerVars
    \/ (\E i \in DOMAIN handlers : BundlerReads(i)) /\ UNCHANGED trackerVars
    \/ (\E i \in DOMAIN handlers : BundlerExits(i)) /\ UNCHANGED trackerVars
    \/ (\E i \in DOMAIN handlers : BuildReturns(i)) /\ UNCHANGED trackerVars

SpecSaveAll == Init /\ [][NextSaveAll]_vars

(* The source of hero is saved in every state it can have and its config  *)
(* is saved as it is, while a preview page listens.                        *)
NextNotice ==
    \/ /\ \E content \in ContentsFor(HeroSource) : FileWritten(HeroSource, content)
       /\ pendingWrites'[HeroSource] = 1
       /\ UNCHANGED trackerVars
    \/ /\ FileWritten(HeroConfig, disk.config[1])
       /\ pendingWrites'[HeroConfig] = 1
       /\ UNCHANGED trackerVars
    \/ /\ \E p \in DOMAIN pendingWrites : EmitChange(p)
       /\ Len(handlers') <= MaxWatching
       /\ UNCHANGED trackerVars
    \/ (\E i \in DOMAIN handlers : ConfigLoaded(i)) /\ UNCHANGED trackerVars
    \/ (\E i \in DOMAIN handlers : TypesGenerated(i)) /\ UNCHANGED trackerVars
    \/ (\E i \in DOMAIN handlers : BundlerReads(i)) /\ UNCHANGED trackerVars
    \/ (\E i \in DOMAIN handlers : BundlerExits(i)) /\ UNCHANGED trackerVars
    \/ (\E i \in DOMAIN handlers : BuildReturns(i)) /\ UNCHANGED trackerVars
    \/ /\ Subscribe("preview", "hero")
       /\ Len(sessions') <= MaxWatching
       /\ UNCHANGED trackerVars

SpecNotice == Init /\ [][NextNotice]_vars

(* The preview state of hero is written by an editor and its generated     *)
(* types by the config reload, while its config changes.                   *)
ReloadableConfigs == {ConfigA, ConfigB}

NextGenerated ==
    \/ /\ \E doc \in PreviewDocs : FileWritten(HeroPreview, doc)
       /\ UNCHANGED trackerVars
    \/ /\ \E content \in ReloadableConfigs : FileWritten(HeroConfig, content)
       /\ UNCHANGED trackerVars
    \/ /\ \E p \in DOMAIN pendingWrites : EmitChange(p)
       /\ Len(handlers') <= MaxWatching
       /\ UNCHANGED trackerVars
    \/ (\E i \in DOMAIN handlers : ConfigLoaded(i)) /\ UNCHANGED trackerVars
    \/ (\E i \in DOMAIN handlers : TypesGenerated(i)) /\ UNCHANGED trackerVars
    \/ (\E i \in DOMAIN handlers : BundlerReads(i)) /\ UNCHANGED trackerVars
    \/ (\E i \in DOMAIN handlers : BundlerExits(i)) /\ UNCHANGED trackerVars
    \/ (\E i \in DOMAIN handlers : BuildReturns(i)) /\ UNCHANGED trackerVars
    \/ /\ Subscribe("preview", "hero")
       /\ Len(sessions') <= MaxWatching
       /\ UNCHANGED trackerVars

SpecGenerated == Init /\ [][NextGenerated]_vars

(* The dev UI saves preview state while the source of hero is edited and  *)
(* rebuilt.                                                                *)
NextPreview ==
    \/ \E blockName \in RequestNames \cup {"styles"}, doc \in PreviewDocs,
          outcome \in WriteOutcomes :
          SavePreview(blockName, doc, outcome)
    \/ /\ \E content \in SourceTrees : FileWritten(HeroSource, content)
       /\ pendingWrites'[HeroSource] = 1
       /\ UNCHANGED trackerVars
    \/ /\ EmitChange(HeroSource)
       /\ Len(handlers') <= MaxWatching
       /\ UNCHANGED trackerVars
    \/ (\E i \in DOMAIN handlers : BundlerReads(i)) /\ UNCHANGED trackerVars
    \/ (\E i \in DOMAIN handlers : BundlerExits(i)) /\ UNCHANGED trackerVars
    \/ (\E i \in DOMAIN handlers : BuildReturns(i)) /\ UNCHANGED trackerVars

SpecPreview == Init /\ [][NextPreview]_vars

(* A project with a block and a template of the same name: the sources of *)
(* both are edited.                                                        *)
TemplateHeroSource == FilePath(<<"templates", "hero", "src", "index.tsx">>)
SameNamePaths == {HeroSource, TemplateHeroSource}

NextSameName ==
    \/ /\ \E p \in SameNamePaths, content \in SourceTrees : FileWritten(p, content)
       /\ UNCHANGED trackerVars
    \/ /\ \E p \in DOMAIN pendingWrites : EmitChange(p)
       /\ Len(handlers') <= MaxWatching
       /\ UNCHANGED trackerVars
    \/ (\E i \in DOMAIN handlers : BundlerReads(i)) /\ UNCHANGED trackerVars
    \/ (\E i \in DOMAIN handlers : BundlerExits(i)) /\ UNCHANGED trackerVars
    \/ (\E i \in DOMAIN handlers : BuildReturns(i)) /\ UNCHANGED trackerVars

SpecSameName == InitWithTemplate /\ [][NextSameName]_vars

(* The manifests of hero and of the block named styles are saved with a   *)
(* new version.                                                            *)
StylesBlockManifest == FilePath(<<"blocks", "styles", "package.json">>)
ManifestPaths == {HeroManifest, StylesBlockManifest}

NextVersions ==
    \/ /\ \E p \in ManifestPaths, content \in ManifestContents : FileWritten(p, content)
       /\ UNCHANGED trackerVars
    \/ /\ \E p \in DOMAIN pendingWrites : EmitChange(p)
       /\ Len(handlers') <= MaxWatching
       /\ UNCHANGED trackerVars
    \/ (\E i \in DOMAIN handlers : BundlerReads(i)) /\ UNCHANGED trackerVars
    \/ (\E i \in DOMAIN handlers : BundlerExits(i)) /\ UNCHANGED trackerVars
    \/ (\E i \in DOMAIN handlers : BuildReturns(i)) /\ UNCHANGED trackerVars

SpecVersions == Init /\ [][NextVersions]_vars

(* New source files are created in hero while its existing source is      *)
(* edited.                                                                 *)
HeroNewSource == FilePath(<<"blocks", "hero", "src", "Card.tsx">>)

NextAdded ==
    \/ /\ \E content \in SourceTrees : FileAdded(HeroNewSource, content)
       /\ UNCHANGED trackerVars
    \/ /\ \E content \in SourceTrees : FileWritten(HeroSource, content)
       /\ UNCHANGED trackerVars
    \/ /\ EmitChange(HeroSource)
       /\ Len(handlers') <= MaxWatching
       /\ UNCHANGED trackerVars
    \/ (\E i \in DOMAIN handlers : BundlerReads(i)) /\ UNCHANGED trackerVars
    \/ (\E i \in DOMAIN handlers : BundlerExits(i)) /\ UNCHANGED trackerVars
    \/ (\E i \in DOMAIN handlers : BuildReturns(i)) /\ UNCHANGED trackerVars

SpecAdded == Init /\ [][NextAdded]_vars

(* A project with a PostCSS configuration: hero is edited and rebuilt      *)
(* while browsers subscribe and leave.  The callbacks of the server run    *)
(* only when it is not inside execSync.                                    *)
ServerEmitsChange(p) == ~ExecSyncBlocks /\ EmitChange(p) /\ UNCHANGED trackerVars
ServerSubscribes == ~ExecSyncBlocks /\ Subscribe("preview", "hero") /\ UNCHANGED trackerVars
ServerCloses(h) == ~ExecSyncBlocks /\ CloseEvent(h) /\ UNCHANGED trackerVars

NextBlocking ==
    \/ /\ \E content \in SourceTrees : FileWritten(HeroSource, content)
       /\ pendingWrites'[HeroSource] = 1
       /\ UNCHANGED trackerVars
    \/ ServerEmitsChange(HeroSource) /\ Len(handlers') <= MaxWatching
    \/ (\E i \in DOMAIN handlers : BundlerReads(i)) /\ UNCHANGED trackerVars
    \/ (\E i \in DOMAIN handlers : BundlerExits(i)) /\ UNCHANGED trackerVars
    \/ /\ \E i \in DOMAIN handlers : BuildReturns(i) /\ ~Bundles(handlers[i].read)
       /\ UNCHANGED trackerVars
    \/ (\E i \in DOMAIN handlers : CssCompilerStarts(i)) /\ UNCHANGED trackerVars
    \/ (\E i \in DOMAIN handlers : CssCompilerExits(i)) /\ UNCHANGED trackerVars
    \/ ServerSubscribes
    \/ (\E h \in DOMAIN sessions : ClientDisconnects(h)) /\ UNCHANGED trackerVars
    \/ \E h \in DOMAIN sessions : ServerCloses(h)

SpecBlocking == Init /\ [][NextBlocking]_vars

(* Everything that writes to a resource of the registry while the server  *)
(* runs: the config and the manifest of hero are saved, the dev UI saves   *)
(* preview state, and a file appears in a directory that was not scanned.  *)
MutatingPaths == {HeroConfig, HeroManifest, UnscannedSource}

MutatingContents(p) ==
    IF p = HeroConfig THEN ReloadableConfigs
    ELSE IF p = HeroManifest THEN ManifestContents
    ELSE {NoContent}

NextRegistry ==
    \/ /\ \E p \in MutatingPaths : \E content \in MutatingContents(p) : FileWritten(p, content)
       /\ \A p \in DOMAIN pendingWrites' : pendingWrites'[p] = 1
       /\ UNCHANGED trackerVars
    \/ /\ \E p \in DOMAIN pendingWrites : EmitChange(p)
       /\ Len(handlers') <= MaxWatching
       /\ UNCHANGED trackerVars
    \/ (\E i \in DOMAIN handlers : ConfigLoaded(i)) /\ UNCHANGED trackerVars
    \/ (\E i \in DOMAIN handlers : TypesGenerated(i)) /\ UNCHANGED trackerVars
    \/ (\E i \in DOMAIN handlers : BundlerReads(i)) /\ UNCHANGED trackerVars
    \/ (\E i \in DOMAIN handlers : BundlerExits(i)) /\ UNCHANGED trackerVars
    \/ (\E i \in DOMAIN handlers : BuildReturns(i)) /\ UNCHANGED trackerVars
    \/ \E blockName \in RequestNames, doc \in PreviewDocs :
          SavePreview(blockName, doc, "written")

SpecRegistry == Init /\ [][NextRegistry]_vars

(***************************************************************************)
(* Properties of the publish task tracker.                                 *)
(***************************************************************************)
LastStep(task) == task.steps[Len(task.steps)]
Created == Len(taskObjs') > Len(taskObjs)
NewIndex == Len(taskObjs')

(* C1: once a task's status is completed or failed, no later step of any   *)
(* operation changes any of its fields (status, progress, steps, error).   *)
TerminalTaskFrozen ==
    [][\A i \in DOMAIN taskObjs :
          Terminal(taskObjs[i]) => taskObjs'[i] = taskObjs[i]]_vars

TerminalTaskOutlived ==
    \E i, j \in DOMAIN taskObjs :
        /\ i # j
        /\ Terminal(taskObjs[i])
        /\ execs[j].phase = "killed"
        /\ ~execs[j].settled

Rank(status) ==
    CASE status = "pending" -> 0
      [] status = "building" -> 1
      [] status = "validating" -> 2
      [] status = "publishing" -> 3
      [] status = "completed" -> 4
      [] OTHER -> 5

(* C2: a task's status only moves forward in the order pending, building,  *)
(* validating, publishing, completed, or to failed from a non-terminal     *)
(* status; it never moves backward and never leaves completed or failed.   *)
StatusMovesForward ==
    [][/\ \A i \in DOMAIN taskObjs' :
             taskObjs'[i].status \in {"pending", "building", "validating",
                                      "publishing", "completed", "failed"}
       /\ \A i \in DOMAIN taskObjs :
             LET before == taskObjs[i].status
                 after == taskObjs'[i].status
             IN  before # after =>
                    /\ ~Terminal(taskObjs[i])
                    /\ after = "failed" \/ Rank(after) > Rank(before)]_vars

BothTerminalStatusesReached ==
    \E i, j \in DOMAIN taskObjs :
        taskObjs[i].status = "completed" /\ taskObjs[j].status = "failed"

(* C3: a task's progress is always an integer in 0..100 and never          *)
(* decreases from one observation to the next, also when the task fails.   *)
ProgressNeverDecreases ==
    [][\A i \in DOMAIN taskObjs' :
          /\ taskObjs'[i].progress \in 0..100
          /\ i \in DOMAIN taskObjs => taskObjs'[i].progress >= taskObjs[i].progress]_vars

FailedKeepsProgress ==
    \E i, j \in DOMAIN taskObjs :
        /\ taskObjs[i].status = "failed" /\ taskObjs[i].progress = 50
        /\ taskObjs[j].status = "completed" /\ taskObjs[j].progress = 100

Schedule(step) ==
    CASE step = "building" -> 10
      [] step = "validating" -> 30
      [] step = "publishing" -> 50
      [] step = "completed" -> 100
      [] OTHER -> 0

(* C4: whenever the latest steps entry of a task is building, validating,  *)
(* publishing or completed, the task's status is that same state and its   *)
(* progress is 10, 30, 50 or 100 respectively.                             *)
StepStatusProgressTogether ==
    \A i \in DOMAIN taskObjs :
        LET task == taskObjs[i]
        IN  (Len(task.steps) > 0 /\ LastStep(task).step \in
                {"building", "validating", "publishing", "completed"}) =>
               /\ task.status = LastStep(task).step
               /\ task.progress = Schedule(LastStep(task).step)

(* C5 as stated: when publish-create returns, the new task is in the task  *)
(* map in status pending with progress 0 and no steps, and the publish     *)
(* command has not been waited for.                                        *)
CreateReturnsPendingTask ==
    [][Created =>
          /\ resp'.code = 200
          /\ publishTasks'[resp'.taskId] = NewIndex
          /\ taskObjs'[NewIndex].status = "pending"
          /\ taskObjs'[NewIndex].progress = 0
          /\ taskObjs'[NewIndex].steps = <<>>
          /\ ~execs'[NewIndex].settled]_vars

(* C5 amended: when publish-create returns, the new task is in the task    *)
(* map under the returned id, already advanced by the synchronous part of  *)
(* executePublish to status building, progress 50 and the three steps      *)
(* building, validating, publishing; the publish command has only been     *)
(* started: its callback has not run and the task's error is null.         *)
CreateReturnsStartedTask ==
    [][Created =>
          /\ resp'.code = 200
          /\ publishTasks'[resp'.taskId] = NewIndex
          /\ taskObjs'[NewIndex].status = "building"
          /\ taskObjs'[NewIndex].progress = 50
          /\ Len(taskObjs'[NewIndex].steps) = 3
          /\ LastStep(taskObjs'[NewIndex]).step = "publishing"
          /\ LastStep(taskObjs'[NewIndex]).status = "in_progress"
          /\ taskObjs'[NewIndex].error = Null
          /\ execs'[NewIndex].phase = "start"
          /\ ~execs'[NewIndex].settled]_vars

CreateJustReturned ==
    /\ resp.code = 200
    /\ resp.taskId \in DOMAIN publishTasks
    /\ taskObjs[publishTasks[resp.taskId]].status = "building"
    /\ execs[publishTasks[resp.taskId]].phase = "start"

TimeoutLines == {UploadTimedOutMsg[1]}
StatesTimeout(message) == \E k \in DOMAIN message : message[k] \in TimeoutLines

(* C6: a task whose publish command exceeds the 3-minute timeout reaches   *)
(* failed, and its error message states that the timeout was exceeded.     *)
TimedOutTaskFailsWithTimeoutMessage ==
    [][\A i \in DOMAIN execs :
          (execs[i].phase = "killed" /\ execs'[i].settled) =>
              /\ taskObjs'[i].status = "failed"
              /\ StatesTimeout(taskObjs'[i].error)]_vars

RemoteFailed(e) == \E k \in DOMAIN e.stderr : e.stderr[k] = RemoteFailedMsg[1]

(* C7: if the remote catalog service rejects the publish or the network    *)
(* call to it fails, the task ends in failed with error set to the         *)
(* failure message.                                                        *)
RemoteFailureFailsTask ==
    [][\A i \in DOMAIN execs :
          (RemoteFailed(execs[i]) /\ execs'[i].settled) =>
              /\ taskObjs'[i].status = "failed"
              /\ \E k \in DOMAIN taskObjs'[i].error :
                    taskObjs'[i].error[k] = RemoteFailedMsg[1]]_vars

(* C8: every publish-create returns a task id different from the id of     *)
(* every task already in the task map, so creating a task never replaces   *)
(* an existing entry of the map.                                           *)
CreateReturnsFreshId ==
    [][Created =>
          /\ resp'.taskId \notin DOMAIN publishTasks
          /\ \A k \in DOMAIN publishTasks : publishTasks'[k] = publishTasks[k]]_vars

RequestInvalid(name, target, workspaceId) ==
    \/ name \notin resources
    \/ target \notin {"marketplace", "workspace"}
    \/ target = "workspace" /\ workspaceId \in {Undefined, ""}

RejectedWithoutEffect ==
    /\ resp'.code \in {400, 404}
    /\ resp'.taskId = NoId
    /\ UNCHANGED <<taskObjs, publishTasks, execs>>

InvalidCreateHandled ==
    \E name \in RequestNames, target \in RequestTargets,
       workspaceId \in RequestWorkspaceIds, versionBump \in RequestVersionBumps :
       /\ RequestInvalid(name, target, workspaceId)
       /\ PublishCreate(name, target, workspaceId, versionBump)

(* C9: a publish-create request with an unknown resource name, a target    *)
(* that is neither marketplace nor workspace, or target workspace without  *)
(* a workspace id is answered with an error, returns no task id, creates   *)
(* no task and starts no publish work: every step that handles such a      *)
(* request only writes the error response.                                 *)
InvalidCreateRejected ==
    [][(resp' # resp \/ Created) =>
          (RejectedWithoutEffect \/ ~InvalidCreateHandled)]_vars

RejectedWhileTaskInFlight ==
    /\ resp.code \in {400, 404}
    /\ resp.taskId = NoId
    /\ \E i \in DOMAIN execs : ~execs[i].settled

(* C10: reading a task's progress (the initial send and every poll of a    *)
(* progress stream) changes no field of any task and neither adds nor      *)
(* removes tasks.                                                          *)
ProgressReadIsPure ==
    [][streams' # streams => UNCHANGED <<taskObjs, publishTasks>>]_vars

TerminalSnapshotStreamed ==
    \E s \in DOMAIN streams :
        /\ streams[s].ended
        /\ streams[s].taskId \in DOMAIN publishTasks
        /\ Terminal(taskObjs[publishTasks[streams[s].taskId]])
(***************************************************************************)
(* Properties of the watcher, the compiler and the notifier.               *)
(***************************************************************************)
Count(seq, x) == Cardinality({k \in DOMAIN seq : seq[k] = x})

SharedStylesRoot == FilePath(<<"styles">>)

(* the resources a change of p concerns: the owner of the file, every      *)
(* resource for a file under the shared styles root                        *)
AffectedBy(p) ==
    IF IsPrefix(SharedStylesRoot, p) THEN DOMAIN registry
    ELSE IF Owner(p) # 0 THEN {Owner(p)}
    ELSE {}

ListenerStarted(p) ==
    /\ Len(handlers') = Len(handlers) + 1
    /\ handlers'[Len(handlers')].path = p

WindowCloses(p) == p \in DOMAIN pendingWrites /\ p \notin DOMAIN pendingWrites'

Finishing(i) ==
    /\ handlers[i].pc \in {"load", "types", "bundled"}
    /\ handlers' = Remove(handlers, i)

(* the calls of buildResource a listener has made when it finishes *)
CallsAtEnd(h) == h.built \o (IF h.pc = "bundled" THEN h.todo ELSE <<h.cur>>)

(* C11: the N >= 1 writes of one file that fall into one pending write     *)
(* (the debounce window of the watcher) start one listener invocation, at  *)
(* the end of the window, and that invocation calls buildResource for the  *)
(* affected resource exactly once; no rebuild starts inside the window.    *)
BurstStartsOneRebuild ==
    [][\A p \in WrittenPaths :
          /\ ListenerStarted(p) => WindowCloses(p)
          /\ (WindowCloses(p) /\ AffectedBy(p) # {}) => ListenerStarted(p)
          /\ \A i \in DOMAIN handlers' :
                handlers'[i].path = p =>
                   \A k \in AffectedBy(p) : Count(handlers'[i].built, k) <= 1
          /\ \A i \in DOMAIN handlers :
                (handlers[i].path = p /\ Finishing(i)) =>
                   \A k \in AffectedBy(p) : Count(CallsAtEnd(handlers[i]), k) = 1]_vars

BurstAfterRebuild ==
    \E p \in WrittenPaths :
        /\ p \in DOMAIN pendingWrites
        /\ pendingWrites[p] >= 2
        /\ \E i \in DOMAIN handlers :
              handlers[i].path = p /\ handlers[i].built = <<Owner(p)>>

(* the step is taken by the listener invocation handlers[i], which goes on *)
Advances(i) ==
    /\ Len(handlers') = Len(handlers)
    /\ handlers'[i] # handlers[i]

HasConfigValues(resource, blockConfig) ==
    /\ resource.displayName = (IF blockConfig.name # "" THEN blockConfig.name ELSE resource.name)
    /\ resource.category = blockConfig.category
    /\ resource.schema = blockConfig.schema

(* C12: a change to the config file of resource R makes its listener load  *)
(* the config first, sets R's displayName, category and schema to the      *)
(* values of the loaded config, and calls buildResource exactly once, for  *)
(* R and for no other resource.                                            *)
ConfigChangeReloadsAndRebuildsOwner ==
    [][\A p \in WrittenPaths :
          IsConfigFile(p) =>
             /\ ListenerStarted(p) => handlers'[Len(handlers')].pc = "load"
             /\ \A i \in DOMAIN handlers :
                   handlers[i].path = p =>
                      /\ (handlers[i].pc = "load" /\ disk.config[Owner(p)].loadable
                            /\ (Advances(i) \/ Finishing(i)))
                           => HasConfigValues(registry'[Owner(p)], disk.config[Owner(p)])
                      /\ Finishing(i) => CallsAtEnd(handlers[i]) = <<Owner(p)>>]_vars

EveryResourceOnce == [k \in 1..Len(registry) |-> k]

Listening(s) == Includes(sseClients, s) /\ sessions[s].state = "open"

(* what an open preview page shows of a broadcast: the message it reloaded on *)
Received(s, data) ==
    (Listening(s) /\ sessions[s].kind = "preview") => sessions'[s].reloaded = data

(* C13: a change to a file under the shared styles root starts a listener  *)
(* that calls buildResource once for every resource of the registry and    *)
(* then writes one message, with block "all", to every session; its other  *)
(* steps write nothing, so no message names a single resource.             *)
StylesChangeRebuildsAllAndBroadcastsAll ==
    [][\A p \in WrittenPaths :
          IsPrefix(SharedStylesRoot, p) =>
             /\ WindowCloses(p) => (ListenerStarted(p) /\ sessions' = sessions)
             /\ \A i \in DOMAIN handlers :
                   handlers[i].path = p =>
                      /\ Advances(i) => sessions' = sessions
                      /\ Finishing(i) =>
                            /\ CallsAtEnd(handlers[i]) = EveryResourceOnce
                            /\ sseClients' = sseClients
                            /\ \A s \in DOMAIN sessions : Received(s, AllReload)]_vars

AllReloadReceived ==
    /\ handlers = <<>>
    /\ \E s \in DOMAIN sessions : sessions[s].reloaded = AllReload

(* C14: a change to a file of resource R other than its config file, at    *)
(* any depth under R's directory, makes its listener call buildResource    *)
(* exactly once, for R and no other resource, and then write one message   *)
(* to every session, naming R with configChanged false.                    *)
SourceChangeRebuildsOwnerOnly ==
    [][\A p \in WrittenPaths :
          (Owner(p) # 0 /\ ~IsConfigFile(p) /\ ~Ignored(p)) =>
             /\ WindowCloses(p) => (ListenerStarted(p) /\ sessions' = sessions)
             /\ \A i \in DOMAIN handlers :
                   handlers[i].path = p =>
                      /\ Advances(i) => sessions' = sessions
                      /\ Finishing(i) =>
                            /\ CallsAtEnd(handlers[i]) = <<Owner(p)>>
                            /\ \A s \in DOMAIN sessions :
                                  Received(s, ResourceReload(registry[Owner(p)].name, FALSE))]_vars

BuildStep(i) == handlers[i].pc \in {"read", "bundled"} /\ (Advances(i) \/ Finishing(i))

(* C15: a step of a rebuild of R that fails (entry point missing, or the   *)
(* bundler reports an error) changes no file of .cmssy/dev and stops no    *)
(* listener and no pending write; the built files change only by a step of *)
(* a rebuild whose bundling succeeded, and then only those of its          *)
(* resource, so what is served for R stays the previous build until a      *)
(* later rebuild of R succeeds.                                            *)
FailedRebuildKeepsArtifact ==
    [][/\ \A i \in DOMAIN handlers :
             (BuildStep(i) /\ ~Bundles(handlers[i].read)) =>
                 /\ devDir' = devDir
                 /\ pendingWrites' = pendingWrites
                 /\ \A j \in DOMAIN handlers : j < i => handlers'[j] = handlers[j]
       /\ (\E p \in WrittenPaths : WindowCloses(p)) => devDir' = devDir
       /\ devDir' # devDir =>
             \E i \in DOMAIN handlers :
                 /\ BuildStep(i)
                 /\ Bundles(handlers[i].read)
                 /\ \A k \in DOMAIN devDir : k # handlers[i].cur => devDir'[k] = devDir[k]]_vars

StaleArtifactServed ==
    \E i \in DOMAIN handlers :
        /\ handlers[i].pc = "bundled"
        /\ handlers[i].read = "broken"
        /\ handlers[i].cur = 1
        /\ devDir[1] = [script |-> "v2", style |-> "v2"]

AtRest == pendingWrites = <<>> /\ handlers = <<>>

(* C16: a change that arrives while a rebuild of the same resource is      *)
(* running is followed by a rebuild that starts after it, so that when the *)
(* watcher has come to rest the built script of every resource whose       *)
(* source builds is the one of the latest source.                          *)
FinalArtifactIsLatestSource ==
    AtRest =>
       \A k \in DOMAIN registry :
           Bundles(disk.source[k]) => devDir[k].script = Entry(disk.source[k])

(* C17: a session in the session set whose client has already disconnected *)
(* is removed from the set by the broadcast whose write to it fails.       *)
FailedWriteDropsSession ==
    [][\A i \in DOMAIN handlers :
          Finishing(i) =>
             \A h \in DOMAIN sessions :
                 (Includes(sseClients, h) /\ sessions[h].state = "gone")
                    => ~Includes(sseClients', h)]_vars

(* C18: a session scoped to resource name N reloads only on messages whose *)
(* block is N or "all", and it does reload on a message with block "all".  *)
ScopedSessionFollowsOwnAndAll ==
    [][\A s \in DOMAIN sessions :
          /\ sessions'[s].reloaded # sessions[s].reloaded
                => sessions'[s].reloaded.block \in {sessions[s].scope, "all"}
          /\ \A i \in DOMAIN handlers :
                (Finishing(i) /\ IsPrefix(SharedStylesRoot, handlers[i].path) /\ Listening(s))
                   => sessions'[s].reloaded = AllReload]_vars

Handles(clients) == {clients[k] : k \in DOMAIN clients}

(* C19: the session set holds, each once, exactly the handles that have    *)
(* subscribed and whose request has not yet closed (the disconnect as the  *)
(* server learns of it): a subscribe appends the new handle, the close of  *)
(* a request removes its handle and no other, and no other step changes    *)
(* the set.                                                                *)
SessionSetIsLiveSessions ==
    [][/\ Handles(sseClients') = {h \in DOMAIN sessions' : sessions'[h].state # "closed"}
       /\ Len(sseClients') = Cardinality(Handles(sseClients'))
       /\ IF Len(sessions') > Len(sessions)
          THEN sseClients' = Append(sseClients, Len(sessions'))
          ELSE IF \E h \in DOMAIN sessions :
                     sessions[h].state # "closed" /\ sessions'[h].state = "closed"
          THEN \E h \in DOMAIN sessions :
                  /\ sessions'[h].state = "closed"
                  /\ sseClients' = SelectSeq(sseClients, LAMBDA g : g # h)
          ELSE sseClients' = sseClients]_vars

LaterSessionLeftFirst ==
    /\ Len(sessions) >= 2
    /\ sessions[1].state = "open"
    /\ sessions[2].state = "closed"
    /\ sseClients = <<1>>

(* C20: a call of buildResource on a resource whose entry source file is   *)
(* missing, with any options including the default options, does not       *)
(* throw to its caller (its promise is not rejected).                      *)
MissingEntryNeverThrows ==
    (compiled.resource # 0 /\ ~compiled.entryExists) => compiled.settled # "rejected"

(* C21: in every reachable state every resource of the registry has a      *)
(* schema that satisfies the validation rules: every select field has      *)
(* options and every repeater field has a nested schema.                   *)
RegistrySchemasValid ==
    \A k \in DOMAIN registry : ValidateSchema(registry[k].schema)

(* C22: at every moment the script and the stylesheet served for a         *)
(* resource are those of one build: the outputs of one source tree that    *)
(* bundles.                                                                *)
ArtifactFromOneBuild ==
    \A k \in DOMAIN devDir :
        \E tree \in SourceTrees :
            /\ Bundles(tree)
            /\ devDir[k] = [script |-> Entry(tree), style |-> Css(tree)]

(* C23: the step that handles a change event whose handling raises an      *)
(* error leaves the server process running, so that the pending writes     *)
(* that remain are still turned into change events and rebuilds.           *)
ListenerErrorLeavesServerRunning ==
    [][\A p \in WrittenPaths :
          (WindowCloses(p) /\ ListenerThrows(p)) => server' = "running"]_vars

InFlight(i) == ~execs[i].settled

(* C24: a step that creates a task or changes a field of one task changes  *)
(* no field of any other task, whether the tasks are for the same resource *)
(* or for different ones; and a valid create for a resource that has a     *)
(* task in flight is answered 200 with a new task for that resource.       *)
TasksIndependent ==
    [][/\ Created =>
             /\ Len(taskObjs') = Len(taskObjs) + 1
             /\ \A j \in DOMAIN taskObjs : taskObjs'[j] = taskObjs[j]
       /\ \A i \in DOMAIN taskObjs :
             taskObjs'[i] # taskObjs[i] =>
                \A j \in DOMAIN taskObjs : j # i => taskObjs'[j] = taskObjs[j]
       /\ \A name \in PublishedNames, target \in PublishedTargets :
             ((\E i \in DOMAIN taskObjs : taskObjs[i].blockName = name /\ InFlight(i))
                /\ PublishCreate(name, target, Undefined, Undefined))
               => /\ Created
                  /\ resp'.code = 200
                  /\ taskObjs'[NewIndex].blockName = name
                  /\ ~execs'[NewIndex].settled]_vars

SameResourceTaskSettledBesideOther ==
    \E i, j \in DOMAIN taskObjs :
        /\ i # j
        /\ taskObjs[i].blockName = taskObjs[j].blockName
        /\ Terminal(taskObjs[i])
        /\ ~Terminal(taskObjs[j])

(* C25: a task's error is non-null only if its status is failed: it is     *)
(* null in the task that a create has stored and in every state of a task  *)
(* that is not failed, completed included.                                 *)
ErrorOnlyWhenFailed ==
    \A i \in DOMAIN taskObjs :
        taskObjs[i].error # Null => taskObjs[i].status = "failed"

CompletedWithoutErrorBesideFailed ==
    \E i, j \in DOMAIN taskObjs :
        /\ taskObjs[i].status = "completed" /\ taskObjs[i].error = Null
        /\ taskObjs[j].status = "failed" /\ taskObjs[j].error # Null

(* the remote publish of task i has succeeded *)
RemoteSucceeded(i) == execs[i].successCount = 1

(* C26: when the publish command of a task whose remote publish has        *)
(* succeeded is settled, the task is completed with progress 100 and error *)
(* null, not failed.                                                       *)
RemoteSuccessCompletes ==
    [][\A i \in DOMAIN execs :
          (RemoteSucceeded(i) /\ execs'[i].settled) =>
              /\ taskObjs'[i].status = "completed"
              /\ taskObjs'[i].progress = 100
              /\ taskObjs'[i].error = Null]_vars

(* C27: every created task eventually reaches completed or failed.         *)
EveryTaskTerminates ==
    \A i \in 1..MaxPolledTasks :
        (i \in DOMAIN taskObjs) ~> (i \in DOMAIN taskObjs /\ Terminal(taskObjs[i]))

EveryTaskSettled ==
    /\ taskObjs # <<>>
    /\ \A i \in DOMAIN taskObjs : Terminal(taskObjs[i]) /\ execs[i].settled

Rebuilding(h) == h.pc \in {"bundle", "read", "bundled"}

SameRoot(p, q) == \E root \in WatchRoots : IsPrefix(root, p) /\ IsPrefix(root, q)

(* C28: two rebuilds of the same resource that were started by changes     *)
(* under the same watched root are never running at the same time: no two  *)
(* such listener invocations are inside buildResource for one resource.    *)
RebuildsSerialized ==
    \A i, j \in DOMAIN handlers :
        (i # j /\ SameRoot(handlers[i].path, handlers[j].path)
             /\ Rebuilding(handlers[i]) /\ Rebuilding(handlers[j]))
           => handlers[i].cur # handlers[j].cur

(* C29: the files of one resource that are saved in one burst, all before  *)
(* the first change event of the burst, start one rebuild of the resource: *)
(* no second listener invocation rebuilds it for another file of the       *)
(* burst.                                                                  *)
BurstOfFilesRebuildsOnce ==
    \A i, j \in DOMAIN handlers :
        (i # j /\ Rebuilding(handlers[i]) /\ Rebuilding(handlers[j]))
           => Owner(handlers[i].path) # Owner(handlers[j].path)

(* the listener invocation for p ends in the turn that started it: its     *)
(* call of buildResource returned at once for a missing entry point        *)
EndsAtOnce(p) ==
    /\ WindowCloses(p)
    /\ Len(handlers') = Len(handlers)
    /\ Owner(p) # 0
    /\ Entry(disk.source[Owner(p)]) = "missing"

GeneratedFiles == {HeroPreview, HeroTypes}

(* C31: a write of a preview.json or of a generated block.d.ts never opens *)
(* a pending write and never starts a listener invocation, so it causes no *)
(* rebuild, no broadcast and no registry update; this holds for the        *)
(* block.d.ts that a config reload regenerates as well.                    *)
GeneratedFilesStartNothing ==
    [][/\ \A p \in GeneratedFiles :
             /\ p \notin DOMAIN pendingWrites'
             /\ \A i \in DOMAIN handlers' : handlers'[i].path # p
       /\ disk'.preview # disk.preview =>
             UNCHANGED <<registry, handlers, pendingWrites, sessions, sseClients, devDir>>
       /\ \A i \in DOMAIN handlers :
             (handlers[i].pc = "types" /\ (Advances(i) \/ Finishing(i)))
                => /\ pendingWrites' = pendingWrites
                   /\ Len(handlers') <= Len(handlers)]_vars

TypesRegeneratedAndAtRest ==
    /\ AtRest
    /\ registry[1].schema = ConfigB.schema
    /\ disk.preview[1] # EmptyPreview
    /\ \E s \in DOMAIN sessions : sessions[s].reloaded = ResourceReload("hero", TRUE)

(* C32: the broadcast that ends a listener invocation is written to every  *)
(* session that is in the session set and still open, whatever the state   *)
(* of the other sessions of the set: a session whose client has gone (the  *)
(* write to it fails) or whose request has closed keeps no other session   *)
(* from the message, and the broadcast itself removes no session.          *)
BroadcastReachesEveryOpenSession ==
    [][\A i \in DOMAIN handlers :
          Finishing(i) =>
             /\ sseClients' = sseClients
             /\ \A s \in DOMAIN sessions :
                   IF Listening(s)
                   THEN sessions'[s].reloaded = ReloadFor(handlers[i])
                   ELSE sessions'[s] = sessions[s]]_vars

ReloadedBehindFailedWrite ==
    /\ Len(sessions) >= 2
    /\ sseClients = <<1, 2>>
    /\ sessions[1].state = "gone"
    /\ sessions[1].reloaded = NoMessage
    /\ sessions[2].state = "open"
    /\ sessions[2].reloaded = ResourceReload("hero", FALSE)

(* C33: a preview-state write for a resource is atomic: when the request   *)
(* is answered with success the preview data in memory and the persisted   *)
(* preview document both equal the submitted document, and when it is      *)
(* answered with an error both are what they were before the request.      *)
PreviewWriteAtomic ==
    [][\A blockName \in RequestNames \cup {"styles"}, doc \in PreviewDocs,
          outcome \in WriteOutcomes :
          (FindByName(blockName) # 0 /\ SavePreview(blockName, doc, outcome)) =>
             LET k == FindByName(blockName)
             IN  IF resp'.code = 200
                 THEN /\ registry'[k].previewData = doc
                      /\ disk'.preview[k] = doc
                 ELSE /\ registry'[k].previewData = registry[k].previewData
                      /\ disk'.preview[k] = disk.preview[k]]_vars

(* C34: a progress stream opened for a task of the task map, whose client  *)
(* stays connected, is ended by the server only in a step that writes a    *)
(* snapshot whose status is completed or failed to it, and once the task   *)
(* it was opened for is completed or failed the stream is eventually sent  *)
(* the snapshot of that task and ended.  A poll writes the snapshot of the *)
(* task its id maps to, and it ends the stream in the same step.           *)
StreamEndsOnTerminalSnapshot ==
    /\ [][\A s \in DOMAIN streams :
             (~streams[s].ended /\ s \in DOMAIN streams' /\ streams'[s].ended)
                => /\ GetTask(streams[s].taskId) # <<>>
                   /\ Terminal(GetTask(streams[s].taskId)[1])]_vars
    /\ \A s \in 1..MaxStreams :
          (/\ s \in DOMAIN streams
           /\ streams[s].opened # 0
           /\ Terminal(taskObjs[streams[s].opened]))
             ~> (/\ s \in DOMAIN streams
                 /\ streams[s].ended
                 /\ TaskOf(streams[s].taskId) = streams[s].opened)

InProgress(task) == {k \in DOMAIN task.steps : task.steps[k].status = "in_progress"}

(* C35: in the steps log of every task at most one entry has status        *)
(* in_progress, that entry is the last one, and there is one only while    *)
(* the task is neither completed nor failed; every entry of a completed    *)
(* task is completed and no entry of a failed task is in_progress.         *)
OneStepInProgress ==
    \A i \in DOMAIN taskObjs :
        LET task == taskObjs[i]
        IN  /\ Cardinality(InProgress(task)) <= 1
            /\ InProgress(task) \subseteq {Len(task.steps)}
            /\ Terminal(task) => InProgress(task) = {}
            /\ task.status = "completed"
                  => \A k \in DOMAIN task.steps : task.steps[k].status = "completed"
            /\ task.status = "failed"
                  => /\ LastStep(task).status = "failed"
                     /\ InProgress(task) = {}

StepsOfEveryOutcome ==
    /\ \E i \in DOMAIN taskObjs :
          taskObjs[i].status = "failed" /\ Len(taskObjs[i].steps) = 4
    /\ \E i \in DOMAIN taskObjs :
          ~Terminal(taskObjs[i]) /\ InProgress(taskObjs[i]) = {3}

(* C36: a name identifies a resource only together with its type: the      *)
(* listener invocation for a change under the templates root rebuilds the  *)
(* template of that name, never the block of the same name, and the one    *)
(* for a change under the blocks root rebuilds the block.                  *)
ChangeRebuildsResourceOfItsRoot ==
    \A i \in DOMAIN handlers :
        /\ IsPrefix(FilePath(<<"templates">>), handlers[i].path)
              => registry[handlers[i].cur].type = "template"
        /\ IsPrefix(FilePath(<<"blocks">>), handlers[i].path)
              => registry[handlers[i].cur].type = "block"

(* C37: the step that handles a change of the manifest of resource R sets  *)
(* R's package metadata to what the file holds, in the turn in which the   *)
(* listener starts and so before the rebuild of R and before the reload    *)
(* broadcast, and that listener rebuilds R.                                *)
ManifestRefreshedBeforeRebuild ==
    [][\A p \in ManifestPaths :
          /\ WindowCloses(p) =>
                /\ ListenerStarted(p)
                /\ registry'[Owner(p)].version = disk.manifest[Owner(p)]
          /\ \A i \in DOMAIN handlers :
                (handlers[i].path = p /\ Finishing(i))
                   => CallsAtEnd(handlers[i]) = <<Owner(p)>>]_vars

(* C38: the add event of a new, non-ignored file under the source tree of  *)
(* resource R is handled like a change event: it starts a listener         *)
(* invocation that rebuilds R and then broadcasts the reload, or leaves    *)
(* one pending.                                                            *)
AddStartsRebuild ==
    [][\A content \in SourceTrees :
          (FileAdded(HeroNewSource, content) /\ disk' # disk)
             => \/ ListenerStarted(HeroNewSource)
                \/ HeroNewSource \in DOMAIN pendingWrites']_vars

BuildInFlight == \E i \in DOMAIN handlers : handlers[i].pc \in {"bundle", "read", "css"}

(* C39: while the bundler or the external CSS compiler of a rebuild is     *)
(* running the server can take its other steps: it can accept a            *)
(* subscription and handle the close of a request.                         *)
ResponsiveWhileBuilding ==
    BuildInFlight =>
       /\ Len(sessions) < MaxSessions => ENABLED ServerSubscribes
       /\ \A h \in DOMAIN sessions :
             sessions[h].state = "gone" => ENABLED ServerCloses(h)

(* C40: no step changes the set of resources of the registry or the type,  *)
(* the name or the root path of a resource: they stay what the initial     *)
(* scan made them, whatever is reloaded or saved.                          *)
RegistryIdentityFixed ==
    [][/\ Len(registry') = Len(registry)
       /\ \A k \in DOMAIN registry :
             /\ registry'[k].type = registry[k].type
             /\ registry'[k].name = registry[k].name
             /\ ResourcePath(registry'[k]) = ResourcePath(registry[k])]_vars

EveryMutableFieldChanged ==
    /\ AtRest
    /\ registry[1].type = "block" /\ registry[1].name = "hero"
    /\ registry[1].schema = ConfigB.schema
    /\ registry[1].version = "1.0.1"
    /\ registry[1].previewData # EmptyPreview
====
